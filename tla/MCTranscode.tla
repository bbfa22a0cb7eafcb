------------------------------ MODULE MCTranscode ------------------------------
(* A video frame lasts longer than an audio frame; either input may be the longer one.
   The video is in decode order, and its second frame is shown before the first. *)
EXTENDS Transcode
MCDuration == <<3, 2>>
MCPacketEnd == <<<<6, 3>>, <<5, 7>>>>
=============================================================================
