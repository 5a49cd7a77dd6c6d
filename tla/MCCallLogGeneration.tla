------------------------- MODULE MCCallLogGeneration -------------------------
(***************************************************************************)
(* Small worlds for CallLogGeneration.                                     *)
(***************************************************************************)
EXTENDS CallLogGeneration

Row(time, l, u, type) == [eventtime |-> time, linkedid |-> l, uniqueid |-> u,
                          eventtype |-> type, chat |-> FALSE]

(* Two calls; the second ends first, and its channel then joins the first, *)
(* as after a transfer: linkedid 2 looks complete for a while and turns    *)
(* out to be a part of the call of linkedid 1.                             *)
TransferredCall ==
    {Row(1, 1, 1, "CHAN_START"), Row(2, 2, 2, "CHAN_START"),
     Row(3, 2, 2, "LINKEDID_END"), Row(4, 1, 2, "OTHER"),
     Row(5, 1, 1, "LINKEDID_END")}

(* With it, the start of a call whose end was never written, as when       *)
(* Asterisk crashed: older than the rest, and unprocessed for good.        *)
TransferredCallAfterCrash == TransferredCall \cup {Row(0, 4, 4, "CHAN_START")}

(* Two calls that have nothing in common, one within the other in time.    *)
TwoCalls ==
    {Row(1, 1, 1, "CHAN_START"), Row(2, 2, 2, "CHAN_START"),
     Row(3, 2, 2, "LINKEDID_END"), Row(4, 1, 1, "LINKEDID_END")}

(* Two calls whose channels meet in a third linkedid, which joins both:    *)
(* the call logs of a batch overlap.                                       *)
MeetingCalls ==
    {Row(1, 1, 1, "CHAN_START"), Row(2, 2, 2, "CHAN_START"), Row(3, 3, 1, "OTHER"),
     Row(4, 3, 2, "LINKEDID_END"), Row(5, 2, 2, "LINKEDID_END"),
     Row(6, 1, 1, "LINKEDID_END")}

(* With them, a chat message, and a linkedid whose CHAN_START was never    *)
(* written: rows that stay unprocessed for good.                           *)
MeetingCallsAndNoise ==
    MeetingCalls \cup {[Row(7, 4, 4, "OTHER") EXCEPT !.chat = TRUE],
                       Row(8, 5, 5, "LINKEDID_END")}

(* The state without the history that EventuallyRecorded does not speak    *)
(* of.                                                                     *)
Programs ==
    <<database, authTenants, events, job, published, faults, deletes, purged, stranded>>

OneTenant == [l \in LinkedIds(Cel) |-> "t1"]
=============================================================================
