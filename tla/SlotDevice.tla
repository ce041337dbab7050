----------------------------- MODULE SlotDevice -----------------------------
(***************************************************************************)
(* The device memory one serving slot owns (ServingSession.cpp): its KV    *)
(* rows, its recurrent (SSM + conv) state, and its ring of interior        *)
(* recurrent-state checkpoints; on the L0 path a slab with a length        *)
(* instead.  A KV row is named by the token it was computed from and the   *)
(* recurrent state by the tokens it has absorbed: the arithmetic of the    *)
(* forward pass is left out, what it reads and overwrites is not.          *)
(***************************************************************************)
EXTENDS Naturals, Sequences, FiniteSetsExt

CONSTANTS MaxContext,   \* rows per slot
          RingCap,      \* SlotSsmCheckpointRing::kMaxPerSlot
          Slab,         \* TRUE: L0 slab substrate, FALSE: paged pool + SsmState
          Dummy,        \* token 0, what an idle hole inside the batch is fed
          Empty         \* a row nothing was written to

ASSUME MaxContextAssumption == MaxContext \in Nat \ {0}
ASSUME RingCapAssumption == RingCap \in Nat \ {0}
ASSUME SlabAssumption == Slab \in BOOLEAN

Rows == 0 .. MaxContext - 1

BlankDevice == [kv   |-> [k \in Rows |-> Empty],
                ssm  |-> <<>>,
                ring |-> <<>>,
                len  |-> 0]

(* The rows [at, at + Len(toks)) rewritten.  A row past the end is outside *)
(* this slot's memory: only the step of a full slab writes one.            *)
WriteRows(kv, at, toks) ==
    [k \in Rows |-> IF k >= at /\ k < at + Len(toks) THEN toks[k - at + 1]
                    ELSE kv[k]]

(* A paged forward of toks at position start: a sequence start zeroes the  *)
(* recurrence first.                                                       *)
PagedForward(d, toks, start) ==
    [d EXCEPT !.kv  = WriteRows(@, start, toks),
              !.ssm = (IF start = 0 THEN <<>> ELSE @) \o toks]

(* KvCache::commit: a slab appends at its own length, unchecked; what is   *)
(* written once it is full goes over memory of others (see Overwritten).   *)
SlabAppend(d, toks) ==
    [d EXCEPT !.kv = WriteRows(@, d.len, toks), !.len = @ + Len(toks)]

Full(d) == Slab /\ d.len >= MaxContext

Overwritten(d, rows, tok) ==
    [d EXCEPT !.kv = [k \in Rows |-> IF k \in rows THEN tok ELSE @[k]]]

(* prefillSlot, and one slot's share of prefillSlotsBatched.               *)
PrefillForward(d, toks, start) ==
    IF Slab THEN SlabAppend(IF start = 0 THEN [d EXCEPT !.len = 0] ELSE d, toks)
    ELSE PagedForward(d, toks, start)

(* One slot's row of stepServing.                                          *)
StepForward(d, tok, pos) ==
    IF Slab THEN SlabAppend(d, <<tok>>) ELSE PagedForward(d, <<tok>>, pos)

(* The checkpoint ring: capture drops the oldest when full.                *)
CaptureCkpt(d, pos) ==
    LET kept == IF Len(d.ring) >= RingCap THEN Tail(d.ring) ELSE d.ring
    IN [d EXCEPT !.ring = Append(kept, [pos |-> pos, ssm |-> d.ssm])]

CkptPositions(d) == {d.ring[k].pos : k \in DOMAIN d.ring}

CkptBestPos(d, lcp) == Max({0} \cup {p \in CkptPositions(d) : p <= lcp})

RestoreCkptSkipped(d, pos) == d        \* mutant: the live state is used

RestoreCkpt(d, pos) ==
    IF pos \notin CkptPositions(d) THEN d
    ELSE LET k == Min({j \in DOMAIN d.ring : d.ring[j].pos = pos})
         IN [d EXCEPT !.ssm = d.ring[k].ssm]

PruneCkptsSkipped(d, keepMaxPos) == d  \* mutant: the diverged tail stays

PruneCkpts(d, keepMaxPos) ==
    LET Kept[n \in 0 .. Len(d.ring)] ==
            IF n = 0 THEN <<>>
            ELSE IF d.ring[n].pos <= keepMaxPos THEN Append(Kept[n - 1], d.ring[n])
            ELSE Kept[n - 1]
    IN [d EXCEPT !.ring = Kept[Len(d.ring)]]

ClearCkpts(d) == [d EXCEPT !.ring = <<>>]

(* The two copies of the cross-slot store: out of a slot, and into one.    *)
ImageOf(d, pos) ==
    [pos |-> pos, ssm |-> d.ssm, kv |-> [k \in 0 .. pos - 1 |-> d.kv[k]]]

RestoreImage(d, img) ==
    [d EXCEPT !.kv  = [k \in Rows |-> IF k < img.pos THEN img.kv[k] ELSE @[k]],
              !.ssm = img.ssm]
=============================================================================
