-------------------------- MODULE RecordingArchive --------------------------
(***************************************************************************)
(* What the recorder and the CDR service promise together: an archive of   *)
(* call recordings.  A recording grows and ends; the archive may keep any  *)
(* part of it that exists, replace that part by another, and never throws  *)
(* it away; it lists a recording only when it keeps something of it; and   *)
(* once it is open, an ended recording with sound in it is kept.           *)
(*                                                                         *)
(* RecordingPipeline implements this specification.                        *)
(***************************************************************************)
EXTENDS Integers

CONSTANT Recordings

VARIABLES
    length,   \* [Recordings -> chunks recorded so far]
    ended,    \* recordings that will not grow any more
    open,     \* can the archive keep anything?
    kept,     \* [Recordings -> chunks kept, 0 for none]
    listed    \* recordings the archive lists

archiveVars == <<length, ended, open, kept, listed>>

ArchiveInit ==
    /\ length = [r \in Recordings |-> 0]
    /\ ended = {}
    /\ open = FALSE
    /\ kept = [r \in Recordings |-> 0]
    /\ listed = {}

Grow(r) ==
    /\ r \notin ended
    /\ length' = [length EXCEPT ![r] = @ + 1]
    /\ UNCHANGED <<ended, open, kept, listed>>

End(r) ==
    /\ ended' = ended \cup {r}
    /\ UNCHANGED <<length, open, kept, listed>>

Open ==
    /\ open' = TRUE
    /\ UNCHANGED <<length, ended, kept, listed>>

Keep(r) ==
    /\ open
    /\ \E n \in 1..length[r] : kept' = [kept EXCEPT ![r] = n]
    /\ UNCHANGED <<length, ended, open, listed>>

List(r) ==
    /\ kept[r] > 0
    /\ listed' = listed \cup {r}
    /\ UNCHANGED <<length, ended, open, kept>>

ArchiveNext == Open \/ \E r \in Recordings : Grow(r) \/ End(r) \/ Keep(r) \/ List(r)

ArchiveSpec == ArchiveInit /\ [][ArchiveNext]_archiveVars

\* An ended recording of which nothing is kept is kept in the end.
FairArchive ==
    /\ ArchiveSpec
    /\ \A r \in Recordings : WF_archiveVars(r \in ended /\ kept[r] = 0 /\ Keep(r))

-----------------------------------------------------------------------------
(* What the archive promises, and with it whatever implements it.          *)

\* No more is kept of a recording than there is, and what is listed is kept.
ArchiveSafe ==
    /\ length \in [Recordings -> Nat] /\ kept \in [Recordings -> Nat]
    /\ \A r \in Recordings : kept[r] <= length[r] /\ (r \in listed => kept[r] > 0)

\* A recording of which something is kept stays kept, a listed one stays listed,
\* and one that has ended does not grow again.
Keeps ==
    \A r \in Recordings :
        /\ kept[r] > 0 => kept'[r] > 0
        /\ r \in listed => r \in listed'
        /\ r \in ended => r \in ended' /\ length'[r] = length[r]

NothingIsLost == [][Keeps]_archiveVars
=============================================================================
