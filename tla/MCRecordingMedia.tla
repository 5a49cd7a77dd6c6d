--------------------------- MODULE MCRecordingMedia ---------------------------
(***************************************************************************)
(* A small world for RecordingMedia: two tenants, a call of the first with *)
(* two recordings, the second made a day later in the other tenant.        *)
(***************************************************************************)
EXTENDS RecordingMedia

CallOfRecording == ("r1" :> "c1") @@ ("r2" :> "c1") @@ ("r3" :> "c2")

TenantOfCall == ("c1" :> "t1") @@ ("c2" :> "t2")

DateOfCall == ("c1" :> 0) @@ ("c2" :> 1)

(* 365, 2 and 365 days, scaled down to the days of this world.             *)
Factory == [cdr |-> 1, export |-> 1, recording |-> 1]

(* Unset is -1: the tenant keeps everything two days, or its recordings    *)
(* not at all.                                                             *)
KeepLong == [cdr |-> 2, export |-> 2, recording |-> 2]
NoRecordings == [cdr |-> -1, export |-> -1, recording |-> 0]
Requests == {KeepLong, NoRecordings}

(* The configuration file sets the days of call logs only.                 *)
LongerCdr == {[cdr |-> 2, export |-> -1, recording |-> -1]}
=============================================================================
