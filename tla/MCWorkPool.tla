----------------------------- MODULE MCWorkPool -----------------------------
(***************************************************************************)
(* WorkPool with two bakes and a replacement, so that one class can always *)
(* have a row in the queue while another row of it runs.                   *)
(***************************************************************************)
EXTENDS WorkPool
=============================================================================
