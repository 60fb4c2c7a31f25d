------------------------------ MODULE ArtifactPages ------------------------------
(***************************************************************************)
(* Listings of the PostgreSQL adapter, whose cursor is an offset into what *)
(* is listed when the page is read, and the reading of all artifacts of a  *)
(* published scan over them, while a purge may remove the scan.            *)
(***************************************************************************)
EXTENDS Integers, SequencesExt, FiniteSetsExt

CONSTANTS
    ReadPageSize,   \* Config.ReadPageSize
    MaxArtifacts,   \* Config.MaxArtifacts
    MaxPublished    \* bound: artifacts of the scan

ASSUME PagesAssumption ==
    ReadPageSize \in Nat \ {0} /\ MaxArtifacts \in Nat \ {0} /\ MaxPublished \in Nat

VARIABLE reading    \* publishedResult: the artifacts collected, and what it answers; known: by its profile

ReadingInit ==
    \E n \in 0..MaxPublished :
      \E known \in BOOLEAN :
        reading = [step |-> "begun", published |-> n, known |-> known, offset |-> 0, seen |-> <<>>,
                   purged |-> FALSE]

-----------------------------------------------------------------------------
(* Pages *)

\* One row more than the page is read to know whether another page follows.
Page(ordered, offset, size) == SubSeq(ordered, offset + 1, Min({offset + size, Len(ordered)}))
More(ordered, offset, size) == Len(ordered) > offset + size

WrongNextOffset(offset, page) == offset + Len(page) + 1
NextOffset(offset, page) == offset + Len(page)

-----------------------------------------------------------------------------
(* The artifacts of one scan *)

\* The artifacts a purge of the scan has left.
Remaining == IF reading.purged THEN <<>> ELSE [i \in 1..reading.published |-> i]

ArtifactPage == Page(Remaining, reading.offset, ReadPageSize)

\* The scan itself, whose analysis profile this process must know.
ScanRecord == IF reading.purged THEN "not_found" ELSE IF reading.known THEN "listing" ELSE "integrity_failure"

ReadScan ==
    /\ reading.step = "begun"
    /\ reading' = [reading EXCEPT !.step = ScanRecord]

\* allArtifacts: the limit is looked at only when another page follows.
ListArtifacts ==
    /\ reading.step = "listing"
    /\ LET page == ArtifactPage
           seen == reading.seen \o page
       IN  reading' = [reading EXCEPT
                         !.seen = seen,
                         !.offset = NextOffset(@, page),
                         !.step = IF ~More(Remaining, reading.offset, ReadPageSize) THEN "read"
                                  ELSE IF Len(seen) > MaxArtifacts THEN "integrity_failure" ELSE "listing"]

PurgeScan ==
    /\ reading.step \in {"begun", "listing"} /\ ~reading.purged
    /\ reading' = [reading EXCEPT !.purged = TRUE]

ReadingNext == ReadScan \/ ListArtifacts \/ PurgeScan

ReadingSpec == ReadingInit /\ [][ReadingNext]_reading

-----------------------------------------------------------------------------
(* Properties *)

\* The artifacts of a scan that is not purged meanwhile are read whole and in
\* order unless they are too many or the scan's profile is gone; and never more
\* of them than a page above the limit.
ArtifactsWhole ==
    /\ reading.step = "read" =>
          /\ ~reading.purged => reading.seen = Remaining
          /\ Len(reading.seen) <= MaxArtifacts + ReadPageSize
    /\ reading.step = "integrity_failure" => reading.published > MaxArtifacts \/ ~reading.known
=============================================================================
