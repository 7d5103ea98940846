------------------------------ MODULE MCScrape ------------------------------
(***************************************************************************)
(* Scrape over model values.                                               *)
(***************************************************************************)
EXTENDS Scrape
=============================================================================
