------------------------------ MODULE MCSyncQueue ------------------------------
(* One video and one audio stream, as muxav joins them; the time base of one is so
   much coarser that a time stamp of the other may be rounded below a packet. *)
EXTENDS SyncQueueUse
MCLimiting == {1, 2}
MCTimeBase == <<1, 5>>
=============================================================================
