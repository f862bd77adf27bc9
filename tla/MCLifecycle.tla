---------------------------- MODULE MCLifecycle ----------------------------
(***************************************************************************)
(* Headers with and without banks, trainer and other mappers, on files that *)
(* end at, before and after every place the loader reads up to.             *)
(***************************************************************************)
EXTENDS Lifecycle

MCHeaders ==
  [magic : {TRUE}, prg : 0 .. 3, chr : {0, 1}, b6 : {\h01, \h04, \h10},
   b7 : {\h01, \h40}]
  \cup [magic : {FALSE}, prg : {1}, chr : {0}, b6 : {0}, b7 : {0}]

(* Files that end where the trainer or a kind of banks ends, or one page    *)
(* before or after it, and files that end within the header.                *)
Ends(h) ==
  {0, TrainerPages(h), FirstChrPage(h), FirstChrPage(h) + h.chr * ChrBank}

WholeFiles ==
  UNION {{[header |-> h, size |-> 16, pages |-> n] :
            n \in {e + d : e \in Ends(h), d \in {-1, 0, 1}} \ {-1}} : h \in MCHeaders}

(* Their missing bytes are those of any header.                             *)
ShortFiles ==
  [header : {h \in MCHeaders : h.chr = 0 /\ h.b6 # \h10}, size : {0, 3, 4, 7, 15},
   pages : {0}]

MCFiles == WholeFiles \cup ShortFiles
=============================================================================
