------------------------------- MODULE Library ------------------------------
(***************************************************************************)
(* Four small parts of the system that do not interact, each modelled in a *)
(* module of its own: the data block pool, the request pool, the decoder   *)
(* and the block file.  A behaviour is one of a single part, the others    *)
(* stand still.                                                            *)
(***************************************************************************)
EXTENDS BufferPool, ObjectPool, Decode, BlockFile

VARIABLE part

Parts == {"buffers", "objects", "decode", "blockfile"}

libraryVars == <<part, bufferVars, objectVars, decodeVars, blockVars>>

LibraryInit ==
  part \in Parts /\ BufferInit /\ ObjectInit /\ DecodeInit /\ BlockInit

LibraryNext ==
  /\ \/ part = "buffers" /\ BufferNext /\ UNCHANGED <<objectVars, decodeVars, blockVars>>
     \/ part = "objects" /\ ObjectNext /\ UNCHANGED <<bufferVars, decodeVars, blockVars>>
     \/ part = "decode" /\ DecodeNext /\ UNCHANGED <<bufferVars, objectVars, blockVars>>
     \/ part = "blockfile" /\ BlockNext /\ UNCHANGED <<bufferVars, objectVars, decodeVars>>
  /\ UNCHANGED part

LibrarySpec == LibraryInit /\ [][LibraryNext]_libraryVars /\ BufferFairness
=============================================================================
