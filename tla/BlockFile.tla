----------------------------- MODULE BlockFile ------------------------------
(***************************************************************************)
(* CBlockFile: data is collected in a block in memory, and written to the  *)
(* file when the next piece has no room in the block, by flush, by close   *)
(* and by the destructor.  What write reports is not looked at.            *)
(*                                                                         *)
(* The bytes are numbered in the order they are saved.  saveData with a    *)
(* format is not modelled: it compares the length of the text with the     *)
(* room by ==, which is met by none of the texts that are longer.          *)
(*                                                                         *)
(* A name with an underscore is a faulty variant of the definition after   *)
(* it.                                                                     *)
(***************************************************************************)
EXTENDS Integers, Sequences

CONSTANTS
  BlockSize,  (* BUFFER_SIZE                                                *)
  MaxSaved    (* bound: bytes saved                                         *)

ASSUME BlockFileAssumption == BlockSize \in Nat /\ BlockSize >= 2 /\ MaxSaved \in Nat

VARIABLES
  block,   (* the first m_blockSize bytes of m_block                        *)
  data,    (* _data of a saveData that has to flush first                   *)
  file,    (* what is in the file                                           *)
  isOpen,  (* m_fileHandle is valid                                         *)
  saved,   (* history: bytes taken by saveData                              *)
  failed   (* history: whether a write has failed                           *)

blockVars == <<block, data, file, isOpen, saved, failed>>

BlockInit ==
  /\ block = <<>> /\ data = <<>> /\ file = <<>>
  /\ isOpen = TRUE /\ saved = 0 /\ failed = FALSE

(* write_w(m_block, m_blockSize): all of the block gets into the file, or, *)
(* when the disk is full or the file is closed, some of it or nothing.     *)
WriteBlock ==
  \E n \in 0 .. Len(block) :
    /\ isOpen \/ n = 0
    /\ file' = file \o SubSeq(block, 1, n)
    /\ failed' = (failed \/ n < Len(block))

FlushBlock_Keeps == IF block = <<>> THEN UNCHANGED <<file, failed, block>>
                    ELSE WriteBlock /\ (block' = <<>> \/ UNCHANGED block)

FlushBlock == IF block = <<>> THEN UNCHANGED <<file, failed, block>>
              ELSE WriteBlock /\ block' = <<>>

(* saveData: into the block, if there is room.                             *)
Room(n) == Len(block) + n <= BlockSize

SaveData(n) ==
  /\ data = <<>> /\ n < BlockSize /\ saved + n <= MaxSaved
  /\ saved' = saved + n
  /\ LET bytes == [i \in 1 .. n |-> saved + i] IN
       IF Room(n) THEN block' = block \o bytes /\ UNCHANGED data
                  ELSE data' = bytes /\ UNCHANGED block
  /\ UNCHANGED <<file, isOpen, failed>>

(* needs more space: flush, and retry.                                     *)
FlushAndRetry ==
  /\ data # <<>> /\ ~Room(Len(data))
  /\ FlushBlock
  /\ UNCHANGED <<data, isOpen, saved>>

Retry ==
  /\ data # <<>> /\ Room(Len(data))
  /\ block' = block \o data
  /\ data' = <<>>
  /\ UNCHANGED <<file, isOpen, saved, failed>>

(* Called by the client, or by the destructor.                             *)
Flush ==
  /\ data = <<>>
  /\ FlushBlock
  /\ UNCHANGED <<data, isOpen, saved>>

CloseFile ==
  /\ data = <<>>
  /\ FlushBlock
  /\ isOpen' = FALSE
  /\ UNCHANGED <<data, saved>>

BlockNext ==
  (\E n \in 1 .. BlockSize : SaveData(n)) \/ FlushAndRetry \/ Retry \/ Flush \/ CloseFile

BlockSpec == BlockInit /\ [][BlockNext]_blockVars
-----------------------------------------------------------------------------
(* What is in the file, then in the block, then about to be put into it is *)
(* in the order it was saved and nothing twice, whatever writes fail; and  *)
(* if none has failed it is all that was saved.                            *)
SavedInOrder ==
  LET bytes == file \o block \o data IN
    /\ \A i \in 1 .. Len(bytes) - 1 : bytes[i] < bytes[i+1]
    /\ failed \/ bytes = [i \in 1 .. saved |-> i]
=============================================================================
