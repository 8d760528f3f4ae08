------------------------------- MODULE Chunk -------------------------------
(***************************************************************************)
(* Chunk records, composite keys and XOR patches (bxdb-core/src/chunk.rs). *)
(*                                                                         *)
(* A page is a function from word indices to words, and a word is the set  *)
(* of its bits that are 1, so that the 64-bit XOR of the code is symmetric *)
(* difference.  A blob is what one call of append_blob puts in a worker    *)
(* file: the compressed image of a page or an encoded patch.  Lengths are  *)
(* counted in blobs: a Full blob and a non-empty patch are 1 long and an   *)
(* empty patch, for which the code writes no byte at all, is 0 long.       *)
(***************************************************************************)
EXTENDS Integers, FiniteSets

CONSTANTS
    Words,      \* word indices of a page, 0 .. PAGE_WORDS - 1 in the code
    Bits,       \* bit positions of a word
    PaLimit     \* 2^45: page addresses lose their upper bits in a 64-bit key

ASSUME ChunkAssumption ==
    /\ IsFiniteSet(Words)
    /\ PaLimit \in Nat \ {0}

-----------------------------------------------------------------------------
(* Composite keys.  2^19 snapshots: SNAPSHOT_BITS = 19.                    *)

SNAPSHOT_LIMIT == 524288

MAX_SNAPSHOT_ID == SNAPSHOT_LIMIT - 1

encode_key(pa, snapshot_id) ==
    ((pa % PaLimit) * SNAPSHOT_LIMIT) + (snapshot_id % SNAPSHOT_LIMIT)

pa_of(key) == key \div SNAPSHOT_LIMIT

snapshot_of(key) == key % SNAPSHOT_LIMIT

-----------------------------------------------------------------------------
(* Pages and patches.                                                      *)

Word == SUBSET Bits

Page == [Words -> Word]

Patch == UNION {[S -> Word] : S \in SUBSET Words}

ZeroPage == [i \in Words |-> {}]

Xor(a, b) == (a \ b) \union (b \ a)

is_all_zero(page) == \A i \in Words : page[i] = {}

\* The patch lists the words in which the two pages differ.
compute_xor_patch(page, base) ==
    [i \in {j \in Words : Xor(page[j], base[j]) # {}} |-> Xor(page[i], base[i])]

\* A patch that stores the new words instead of the differences.
apply_delta_patch_overwrite(base, patch) ==
    [i \in Words |-> IF i \in DOMAIN patch THEN patch[i] ELSE base[i]]

apply_delta_patch(base, patch) ==
    [i \in Words |-> IF i \in DOMAIN patch THEN Xor(base[i], patch[i]) ELSE base[i]]

patch_len(patch) == Cardinality(DOMAIN patch)

-----------------------------------------------------------------------------
(* Records of chunks.log and the blobs they locate.                        *)

ChunkKind == {"Full", "Delta", "Zero"}

ChunkRecord == [key : Nat, kind : ChunkKind, worker_id : Nat,
                offset : Nat, len : 0..1, base_key : Nat]

new_full(key, worker_id, offset, len) ==
    [key |-> key, kind |-> "Full", worker_id |-> worker_id,
     offset |-> offset, len |-> len, base_key |-> 0]

new_delta(key, worker_id, offset, len, base_key) ==
    [key |-> key, kind |-> "Delta", worker_id |-> worker_id,
     offset |-> offset, len |-> len, base_key |-> base_key]

new_zero(key) ==
    [key |-> key, kind |-> "Zero", worker_id |-> 0,
     offset |-> 0, len |-> 0, base_key |-> 0]

Blob == [kind : {"Full", "Delta"}, data : Patch]

blob_len(blob) ==
    IF blob.kind = "Delta" /\ DOMAIN blob.data = {} THEN 0 ELSE 1
=============================================================================
