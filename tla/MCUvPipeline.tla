---------------------------- MODULE MCUvPipeline ----------------------------
(* The pipeline on a short file, with pipes that hold less than it.        *)
EXTENDS UvPipeline

MCInput == <<1, 2, 3>>
MCReqs == {"open", "read", "write"}
=============================================================================
