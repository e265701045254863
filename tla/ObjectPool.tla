----------------------------- MODULE ObjectPool -----------------------------
(***************************************************************************)
(* CObjectPool3: the request objects of CFilePool.  getBlock looks for an  *)
(* unused object from m_curIndex on, moves the index with a compare-and-   *)
(* swap, and marks the object only then; release takes the mark away.      *)
(*                                                                         *)
(* A name with an underscore is a faulty variant of the definition after   *)
(* it.                                                                     *)
(***************************************************************************)
EXTENDS Integers, FiniteSets

CONSTANTS
  ObjCount,  (* m_objCount                                                  *)
  Users,     (* threads that take an object each                            *)
  ObjLag     (* bound: swaps of others from the read of the index to the mark *)

Objs == 0 .. ObjCount - 1

(* The pool has at least 1024 objects (CFilePool::CFilePool).              *)
ASSUME ObjectPoolAssumption ==
  /\ ObjCount \in Nat \ {0} /\ ObjLag \in Nat /\ IsFiniteSet(Users)
  /\ Cardinality(Users) + ObjLag <= ObjCount

VARIABLES
  curIdx,   (* m_curIndex                                                   *)
  marked,   (* the objects with used = 1                                    *)
  user,     (* where each user is                                           *)
  seen,     (* its curIndex                                                 *)
  follow,   (* its nextIndex                                                *)
  obj,      (* its obj                                                      *)
  objLag    (* history: swaps of others since it read the index             *)

objectVars == <<curIdx, marked, user, seen, follow, obj, objLag>>

NextObj(i) == (i + 1) % ObjCount

ObjectInit ==
  /\ curIdx = 0 /\ marked = {}
  /\ user = [u \in Users |-> "idle"]
  /\ seen = [u \in Users |-> 0]
  /\ follow = [u \in Users |-> 0]
  /\ obj = [u \in Users |-> 0]
  /\ objLag = [u \in Users |-> 0]

UserGoes(u, from, to) == user[u] = from /\ user' = [user EXCEPT ![u] = to]

(* getBlock, from the label retry on.                                      *)
ReadIndex(u) ==
  /\ UserGoes(u, "idle", "scan") \/ UserGoes(u, "retry", "scan")
  /\ seen' = [seen EXCEPT ![u] = curIdx]
  /\ follow' = [follow EXCEPT ![u] = NextObj(curIdx)]
  /\ obj' = [obj EXCEPT ![u] = curIdx]
  /\ objLag' = [objLag EXCEPT ![u] = 0]
  /\ UNCHANGED <<curIdx, marked>>

SkipUsed(u) ==
  /\ UserGoes(u, "scan", "scan")
  /\ obj[u] \in marked
  /\ obj' = [obj EXCEPT ![u] = follow[u]]
  /\ follow' = [follow EXCEPT ![u] = NextObj(@)]
  /\ UNCHANGED <<curIdx, marked, seen, objLag>>

FoundUnused(u) ==
  /\ UserGoes(u, "scan", "swap")
  /\ obj[u] \notin marked
  /\ UNCHANGED <<curIdx, marked, seen, follow, obj, objLag>>

CasFailed(u) ==
  /\ UserGoes(u, "swap", "retry")
  /\ curIdx # seen[u]
  /\ UNCHANGED <<curIdx, marked, seen, follow, obj, objLag>>

(* The threads between the read of the index and the mark.                 *)
Inside == {u \in Users : user[u] \in {"scan", "swap", "mark"}}

SwapIndex(u) ==
  /\ curIdx' = follow[u]
  /\ \A v \in Inside \ {u} : objLag[v] < ObjLag
  /\ objLag' = [v \in Users |-> IF v \in Inside \ {u} THEN objLag[v] + 1 ELSE objLag[v]]

CasObj_Store(u) ==
  /\ UserGoes(u, "swap", "mark")
  /\ SwapIndex(u)
  /\ UNCHANGED <<marked, seen, follow, obj>>

CasObj(u) ==
  /\ UserGoes(u, "swap", "mark")
  /\ curIdx = seen[u]
  /\ SwapIndex(u)
  /\ UNCHANGED <<marked, seen, follow, obj>>

MarkUsed(u) ==
  /\ UserGoes(u, "mark", "has")
  /\ marked' = marked \cup {obj[u]}
  /\ seen' = [seen EXCEPT ![u] = 0]
  /\ follow' = [follow EXCEPT ![u] = 0]
  /\ objLag' = [objLag EXCEPT ![u] = 0]
  /\ UNCHANGED <<curIdx, obj>>

(* release, by the user or by a thread it has passed the object to.        *)
ReleaseObj(u) ==
  /\ UserGoes(u, "has", "idle")
  /\ marked' = marked \ {obj[u]}
  /\ obj' = [obj EXCEPT ![u] = 0]
  /\ UNCHANGED <<curIdx, seen, follow, objLag>>

ObjectNext ==
  \E u \in Users : \/ ReadIndex(u) \/ SkipUsed(u) \/ FoundUnused(u) \/ CasFailed(u)
                   \/ CasObj(u) \/ MarkUsed(u) \/ ReleaseObj(u)

ObjectSpec == ObjectInit /\ [][ObjectNext]_objectVars
-----------------------------------------------------------------------------
(* No object is given to two threads, and one that is in use stays marked  *)
(* until it is released, as long as the threads and the swaps that may     *)
(* overtake one of them are together no more than the objects.             *)
OneOwner ==
  \A u \in Users : user[u] \in {"mark", "has"} =>
    /\ user[u] = "has" => obj[u] \in marked
    /\ \A v \in Users \ {u} : user[v] \in {"mark", "has"} => obj[v] # obj[u]
=============================================================================
