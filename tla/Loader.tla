------------------------------- MODULE Loader -------------------------------
(***************************************************************************)
(* What a loader of iNES files promises: a file is loaded completely, as    *)
(* its header describes it, or refused, and a refusal leaves nothing behind.*)
(***************************************************************************)
EXTENDS Ines

VARIABLES
  file,        \* the file to load
  state,       \* how far the loader is
  cartridge,   \* the pages of the loaded cartridge
  held         \* the file handle and the memory the loader has not given back

promised == <<file, state, cartridge, held>>

NoCartridge == [prg |-> NoPages, chr |-> NoPages]

Init ==
  /\ file \in Files
  /\ state = "loading"
  /\ cartridge = NoCartridge
  /\ held = {}

(* Where the file has no complete header, any header that agrees with it    *)
(* may be taken for its header.                                             *)
Load ==
  /\ state = "loading"
  /\ \E h \in Headers :
       /\ Agrees(h, file) /\ h.magic /\ Mapper(h) = 0 /\ Complete(h, file)
       /\ cartridge' = [prg |-> DocumentedPrg(h), chr |-> DocumentedChr(h)]
  /\ state' = "loaded"
  /\ held' \in {{"cart"} \cup banks : banks \in SUBSET {"rom", "vrom"}}
  /\ UNCHANGED file

Refuse ==
  /\ state = "loading"
  /\ state' = "refused"
  /\ UNCHANGED <<file, cartridge, held>>

Release ==
  /\ state = "loaded"
  /\ state' = "released"
  /\ cartridge' = NoCartridge
  /\ held' = {}
  /\ UNCHANGED file

Next == Load \/ Refuse \/ Release

Spec == Init /\ [][Next]_promised
=============================================================================
