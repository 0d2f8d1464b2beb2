------------------------------ MODULE NvsPage ------------------------------
(***************************************************************************)
(* The flash page of src/src/libs/nrf_HAL/nvs/nvs.c as its scanning loops  *)
(* see it.  Every loop of nvs.c starts at NVS_PARTITION_START_ADDR and     *)
(* follows the LEN words as long as the word it stands on is               *)
(* START_OF_DATA, so a page is the sequence of the records such a loop     *)
(* visits and what it finds where it stops:                                *)
(*   "clean"    erased flash: the next record can be written there;        *)
(*   "sod"      a START_OF_DATA word whose LEN word was never written: LEN *)
(*              reads 0xFFFFFFFF and the loop steps back by one word;      *)
(*   "blocked"  a programmed word that is not START_OF_DATA: the loop      *)
(*              stops there, and what is programmed over it only clears    *)
(*              bits and never becomes a record.                           *)
(* A payload is one value; Torn is a payload that is not what was written. *)
(***************************************************************************)
EXTENDS Naturals, Sequences, SequencesExt

CONSTANTS
    Uid,        \* uids the callers use
    Val,        \* payloads
    Sizes,      \* payload sizes in words (bytes are rounded up: system.h:72)
    Meta,       \* NVS_META_DATA_SIZE_WORDS
    PageWords,  \* NVS_PARTITION_SPACE_SIZE_WORDS
    NoUid,      \* the uid word of a record whose UID was never written
    Torn

ASSUME PageAssumption ==
    /\ NoUid \notin Uid
    /\ Torn \notin Val
    /\ Sizes \subseteq Nat \ {0}
    /\ Meta \in Nat \ {0}
    /\ PageWords \in Nat

Record == [uid : Uid \cup {NoUid}, n : Nat, val : Val \cup {Torn}]
Page == [recs : Seq(Record), tail : {"clean", "sod", "blocked"}]

ErasedPage == [recs |-> <<>>, tail |-> "clean"]

Words(r) == Meta + r.n
RecordWords(recs) ==
    LET words[k \in 0 .. Len(recs)] ==
            IF k = 0 THEN 0 ELSE words[k - 1] + Words(recs[k])
    IN  words[Len(recs)]

\* The records but those of u, in their order.
Without(recs, u) ==
    LET copied[k \in 0 .. Len(recs)] ==
            IF k = 0 THEN <<>>
            ELSE IF recs[k].uid = u THEN copied[k - 1]
            ELSE Append(copied[k - 1], recs[k])
    IN  copied[Len(recs)]

----------------------------------------------------------------------------
(* The scanning helpers.                                                    *)

nvs_is_uid_present_First(p, u) ==   \* mutant
    p.recs # <<>> /\ p.recs[1].uid = u
nvs_is_uid_present(p, u) == \E i \in DOMAIN p.recs : p.recs[i].uid = u

\* Words of payload stored for u, 0 when u is absent.
nvs_get_size_of_data(p, u) ==
    LET i == SelectInSeq(p.recs, LAMBDA r : r.uid = u)
    IN  IF i = 0 THEN 0 ELSE p.recs[i].n

\* On "sod" the loop adds 0xFFFFFFFF, one word less in the uint16_t result.
nvs_get_size_of_stored_data(p) ==
    (RecordWords(p.recs) + (IF p.tail = "sod" THEN 65535 ELSE 0)) % 65536

\* Word offset of the place the next record is written to.  On "sod" the loop
\* ends on the word before the torn header (at offset 0, in the page below).
nvs_get_ptr_last_loction(p) ==
    LET end == RecordWords(p.recs)
    IN  IF p.tail = "sod" /\ end > 0 THEN end - 1 ELSE end

\* Index of the record nvs_get_uid_pointer returns a pointer to, 0 for NULL.
nvs_get_uid_pointer(p, u) == SelectInSeq(p.recs, LAMBDA r : r.uid = u)

----------------------------------------------------------------------------
(* What the SoftDevice's flash driver does to the page.  It programs the    *)
(* words of a buffer in order; a word that is already programmed keeps only *)
(* the bits both have.                                                      *)

\* From "sod" the first word of a write lands on the last word of the record
\* before it.
Spoiled(p) ==
    [p EXCEPT !.recs = [i \in DOMAIN p.recs |->
                           IF i = Len(p.recs) THEN [p.recs[i] EXCEPT !.val = Torn]
                                              ELSE p.recs[i]]]

\* A completed write of recs, followed by zero words when pad.
Written(p, recs, pad) ==
    CASE p.tail = "clean" ->
             [recs |-> p.recs \o recs, tail |-> IF pad THEN "blocked" ELSE "clean"]
      [] p.tail = "sod" -> [Spoiled(p) EXCEPT !.tail = "blocked"]
      [] OTHER -> p

\* The record r cut before its UID word, inside its payload, or not there.
Cuts(r) == {<<>>, <<[r EXCEPT !.uid = NoUid, !.val = Torn]>>, <<[r EXCEPT !.val = Torn]>>}

\* The first k-1 records of recs, then what is left of record k.
CutAt(p, recs, k, rest) == [p EXCEPT !.recs = @ \o SubSeq(recs, 1, k - 1) \o rest]

\* The pages cut inside a record, and those cut after its START_OF_DATA word.
CutInside(p, recs) ==
    UNION {{CutAt(p, recs, k, rest) : rest \in Cuts(recs[k])} : k \in DOMAIN recs}
CutAfterStart(p, recs) ==
    {[CutAt(p, recs, k, <<>>) EXCEPT !.tail = "sod"] : k \in DOMAIN recs}

\* Pages an interrupted write of recs can leave.  From "sod" the torn header
\* stands until the second word is written.
Interrupted(p, recs) ==
    {p, Written(p, recs, FALSE)}
        \cup CASE p.tail = "clean" -> CutInside(p, recs) \cup CutAfterStart(p, recs)
               [] p.tail = "sod" -> {Spoiled(p)}
               [] OTHER -> {}

\* Pages a write can leave whose source buffer was reused while it was read:
\* a prefix of the words is what the caller asked for, the rest is not.
Garbled(p, recs) ==
    IF p.tail # "clean" THEN {Written(p, recs, FALSE)}
    ELSE {Written(p, recs, FALSE)}
         \cup UNION {{[CutAt(p, recs, k, rest) EXCEPT
                          !.tail = IF k < Len(recs) \/ rest = <<>> THEN "blocked" ELSE "clean"] :
                      rest \in Cuts(recs[k])} : k \in DOMAIN recs}

============================================================================
