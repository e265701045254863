--------------------------- MODULE PipelineProofs ---------------------------
(***************************************************************************)
(* Proofs about the pipeline: whatever the filters between collect and     *)
(* return, the number of tokens and the size of the ring, the block a      *)
(* token carries is the pipeline's until CReturnPacketTask returns it, and *)
(* the token pool gives its objects out one by one.                        *)
(*                                                                         *)
(* The argument numbers the tokens of a run as tbb got them.  The return   *)
(* filter is serial, so that the tokens it has passed are the first ones;  *)
(* the n-th token carries the n-th block of the run and has the object     *)
(* that is Len(flow) - n + 1 places in front of m_curIndex.                *)
(***************************************************************************)
EXTENDS Pipeline, FiniteSetTheorems, SequenceTheorems, TLAPS

Token == [slot: Slots, at: 1 .. Done, st: {"waits", "runs", "moved"}]

(* The block that has been picked and has no token yet.                    *)
Opened == IF collect \in {"token", "aborted"} THEN 1 ELSE 0

(* The blocks before this run, and the blocks of this run returned so far. *)
First == picked - Opened - Len(flow)
Given == moved - First

(* The object of the pool j places in front of m_curIndex.                 *)
Back(j) == IF j <= curIndex THEN curIndex - j ELSE curIndex + Tokens - j

Age(n) == Len(flow) + 1 - n

(* The manager and the collect filter: a run ends after a stop signal.     *)
RunInv ==
  /\ ~isRunning => flow = <<>> /\ collect = "out" /\ (runs > 0 => inputDone)
  /\ isSeenStop => collect \in {"out", "loop"} /\ picked \in StopBlks
  /\ inputDone => collect = "out" /\ ~isSeenStop /\ picked \in StopBlks

(* The tokens the return filter has passed are the first of the run, it    *)
(* has one token at a time, and each block returned is that of its token.  *)
OrderInv ==
  /\ picked <= published
  /\ First \in Nat /\ Given \in 0 .. Len(flow)
  /\ \A n \in DOMAIN flow :
       /\ n > Given => flow[n].at # Done /\ flow[n].st # "moved"
       /\ n < Given => flow[n].at = Done
       /\ n = Given => flow[n].at = Done \/ flow[n].st = "moved"
       /\ flow[n].st = "moved" => flow[n].at = Return
       /\ flow[n].st = "runs" /\ flow[n].at = Return
            => \A m \in 1 .. n - 1 : flow[m].at = Done

(* The tokens on their way have the objects given out last, and there is   *)
(* one to spare when the collect filter is at work.                        *)
PoolInv ==
  /\ \A n \in InFlight :
       /\ Age(n) <= Tokens
       /\ collect # "out" => Age(n) < Tokens
       /\ flow[n].slot = Back(Age(n))
       /\ blkOf[flow[n].slot] = First + n
  /\ \A s \in Slots : used[s] <=> \E n \in InFlight : flow[n].slot = s

PipeInv == TypeOK /\ RunInv /\ OrderInv /\ PoolInv
(***************************************************************************)
(* The operators.                                                          *)
(***************************************************************************)
LEMMA Numbers ==
  /\ Return \in Nat /\ Return >= 1 /\ Done = Return + 1
  /\ Tokens \in Nat /\ Tokens >= 1 /\ MaxBlk \in Nat /\ MaxRuns \in Nat
  /\ PosMod \in Nat /\ PosMod >= 1 /\ RingCount \in Nat /\ RingCount > 2
  /\ StopBlks \subseteq 1 .. MaxBlk
<1>1. Len(Serial) \in Nat
  BY PipelineAssumption, LenProperties
<1>2. QED BY <1>1, PipelineAssumption DEF Return, Done

(* Modulo: the next index without %.                                       *)
LEMMA NextIndexIs ==
  ASSUME curIndex \in Slots
  PROVE  /\ NextIndex \in Slots
         /\ NextIndex = IF curIndex + 1 = Tokens THEN 0 ELSE curIndex + 1
<1> USE Numbers
<1>1. curIndex \in 0 .. Tokens - 1
  BY DEF Slots
<1>2. CASE curIndex + 1 = Tokens
  <2>1. Tokens % Tokens = 0
    BY SMT
  <2>2. QED BY <1>1, <1>2, <2>1 DEF Slots, NextIndex
<1>3. CASE curIndex + 1 < Tokens
  <2>1. (curIndex + 1) % Tokens = curIndex + 1
    BY <1>1, <1>3, SMT
  <2>2. QED BY <1>1, <1>3, <2>1 DEF Slots, NextIndex
<1>4. QED BY <1>1, <1>2, <1>3

(* As many places in front of the index as there are objects, all          *)
(* different, and the last of them is the index itself.                    *)
LEMMA BackIsSlot ==
  ASSUME curIndex \in Slots, NEW j \in 1 .. Tokens
  PROVE  /\ Back(j) \in Slots
         /\ Back(j) = curIndex <=> j = Tokens
         /\ \A i \in 1 .. Tokens : Back(i) = Back(j) => i = j
  BY Numbers DEF Back, Slots

(* An object given out makes all those before it older by one.             *)
LEMMA BackAfterGet ==
  ASSUME curIndex \in Slots, curIndex' = NextIndex
  PROVE  /\ Back(1)' = curIndex
         /\ \A j \in 1 .. Tokens - 1 : Back(j + 1)' = Back(j)
<1>1. curIndex' = IF curIndex + 1 = Tokens THEN 0 ELSE curIndex + 1
  BY NextIndexIs
<1>2. curIndex \in 0 .. Tokens - 1
  BY DEF Slots
<1>3. Back(1)' = curIndex
  BY <1>1, <1>2, Numbers DEF Back
<1>4. ASSUME NEW j \in 1 .. Tokens - 1 PROVE Back(j + 1)' = Back(j)
  <2>1. Back(j + 1)' = IF j + 1 <= curIndex' THEN curIndex' - (j + 1) ELSE curIndex' + Tokens - (j + 1)
    BY DEF Back
  <2>2. QED BY <1>1, <1>2, <2>1, Numbers DEF Back
<1>5. QED BY <1>3, <1>4

LEMMA FlowFacts ==
  ASSUME TypeOK
  PROVE  /\ flow \in Seq(Token) /\ Len(flow) \in Nat /\ DOMAIN flow = 1 .. Len(flow)
         /\ \A n \in DOMAIN flow : flow[n] \in Token
         /\ InFlight \subseteq 1 .. Len(flow)
<1>1. flow \in Seq(Token)
  BY DEF TypeOK, Token
<1>2. QED BY <1>1, LenProperties, ElementOfSeq DEF InFlight

(* A serial filter begins or ends with a token: one entry of flow changes. *)
LEMMA FlowExcept ==
  ASSUME TypeOK, NEW n \in DOMAIN flow, NEW token \in Token, flow' = [flow EXCEPT ![n] = token]
  PROVE  /\ flow' \in Seq(Token) /\ Len(flow') = Len(flow) /\ DOMAIN flow' = DOMAIN flow
         /\ flow'[n] = token /\ \A m \in DOMAIN flow \ {n} : flow'[m] = flow[m]
<1>1. flow \in Seq(Token) /\ n \in 1 .. Len(flow) /\ DOMAIN flow = 1 .. Len(flow)
  BY FlowFacts
<1>2. flow' \in Seq(Token) /\ Len(flow') = Len(flow)
  BY <1>1, ExceptSeq
<1>3. DOMAIN flow' = 1 .. Len(flow')
  BY <1>2, LenProperties
<1>4. QED BY <1>1, <1>2, <1>3, ExceptSeq

LEMMA FlowAppend ==
  ASSUME TypeOK, NEW token \in Token, flow' = Append(flow, token)
  PROVE  /\ flow' \in Seq(Token) /\ Len(flow') = Len(flow) + 1
         /\ DOMAIN flow' = 1 .. Len(flow) + 1
         /\ flow'[Len(flow) + 1] = token /\ \A m \in DOMAIN flow : flow'[m] = flow[m]
<1>1. flow \in Seq(Token) /\ DOMAIN flow = 1 .. Len(flow)
  BY FlowFacts
<1>2. flow' \in Seq(Token) /\ Len(flow') = Len(flow) + 1
  BY <1>1, AppendProperties
<1>3. DOMAIN flow' = 1 .. Len(flow')
  BY <1>2, LenProperties
<1>4. QED BY <1>1, <1>2, <1>3, AppendProperties

(* What a step of a filter makes of its token.                             *)
Becomes(n, at, st) ==
  /\ flow' \in Seq(Token) /\ Len(flow') = Len(flow) /\ DOMAIN flow' = DOMAIN flow
  /\ flow'[n].slot = flow[n].slot /\ flow'[n].at = at /\ flow'[n].st = st
  /\ \A m \in DOMAIN flow \ {n} : flow'[m] = flow[m]

LEMMA FilterFlow ==
  ASSUME TypeOK, NEW n \in DOMAIN flow
  PROVE  /\ BeginFilter(n) => Becomes(n, flow[n].at, "runs")
         /\ EndFilter(n) => Becomes(n, flow[n].at + 1, "waits")
         /\ ReturnBlk(n) => Becomes(n, Return, "moved")
         /\ ReturnToken(n) => Becomes(n, Done, "waits")
<1>0. flow[n] \in Token
  BY FlowFacts
<1>1. ASSUME BeginFilter(n) PROVE Becomes(n, flow[n].at, "runs")
  <2> DEFINE token == [flow[n] EXCEPT !.st = "runs"]
  <2>1. token \in Token /\ flow' = [flow EXCEPT ![n] = token]
    BY <1>0, <1>1 DEF BeginFilter, Token
  <2>2. token.slot = flow[n].slot /\ token.at = flow[n].at /\ token.st = "runs"
    BY <1>0 DEF Token
  <2> HIDE DEF token
  <2>3. QED BY <2>1, <2>2, FlowExcept DEF Becomes
<1>2. ASSUME EndFilter(n) PROVE Becomes(n, flow[n].at + 1, "waits")
  <2> DEFINE token == [flow[n] EXCEPT !.st = "waits", !.at = flow[n].at + 1]
  <2>1. flow[n].at + 1 \in 1 .. Done
    BY <1>0, <1>2, Numbers DEF EndFilter, Token
  <2>2. token \in Token /\ flow' = [flow EXCEPT ![n] = token]
    BY <1>0, <1>2, <2>1 DEF EndFilter, Token
  <2>3. token.slot = flow[n].slot /\ token.at = flow[n].at + 1 /\ token.st = "waits"
    BY <1>0 DEF Token
  <2> HIDE DEF token
  <2>4. QED BY <2>2, <2>3, FlowExcept DEF Becomes
<1>3. ASSUME ReturnBlk(n) PROVE Becomes(n, Return, "moved")
  <2> DEFINE token == [flow[n] EXCEPT !.st = "moved"]
  <2>1. token \in Token /\ flow' = [flow EXCEPT ![n] = token]
    BY <1>0, <1>3 DEF ReturnBlk, Token
  <2>2. token.slot = flow[n].slot /\ token.at = Return /\ token.st = "moved"
    BY <1>0, <1>3 DEF ReturnBlk, Token
  <2> HIDE DEF token
  <2>3. QED BY <2>1, <2>2, FlowExcept DEF Becomes
<1>4. ASSUME ReturnToken(n) PROVE Becomes(n, Done, "waits")
  <2> DEFINE token == [flow[n] EXCEPT !.st = "waits", !.at = Done]
  <2>0. Done \in 1 .. Done
    BY Numbers
  <2>1. token \in Token /\ flow' = [flow EXCEPT ![n] = token]
    BY <1>0, <1>4, <2>0 DEF ReturnToken, Token
  <2>2. token.slot = flow[n].slot /\ token.at = Done /\ token.st = "waits"
    BY <1>0 DEF Token
  <2> HIDE DEF token
  <2>3. QED BY <2>1, <2>2, FlowExcept DEF Becomes
<1>5. QED BY <1>1, <1>2, <1>3, <1>4

(***************************************************************************)
(* The filters behind the collect filter.                                  *)
(***************************************************************************)
(* The return filter takes the tokens in turn: the first it has not passed *)
(* is the one it works on.                                                 *)
LEMMA ReturnsInTurn ==
  ASSUME TypeOK, OrderInv, NEW n \in DOMAIN flow, flow[n].st = "runs", flow[n].at = Return
  PROVE  n = Given + 1
<1>1. n \in 1 .. Len(flow) /\ Given \in 0 .. Len(flow) /\ DOMAIN flow = 1 .. Len(flow)
  BY FlowFacts DEF OrderInv
<1> DEFINE g == Given
<1>2. n > g
  <2>1. Return # Done
    BY Numbers
  <2>2. ~(n < g) /\ n # g
    BY <2>1 DEF OrderInv
  <2>3. QED BY <1>1, <2>2
<1>3. ASSUME g + 1 < n PROVE FALSE
  <2>1. g + 1 \in 1 .. n - 1 /\ g + 1 \in DOMAIN flow /\ g + 1 > g
    BY <1>1, <1>3
  <2>2. flow[g + 1].at = Done /\ flow[g + 1].at # Done
    BY <2>1 DEF OrderInv
  <2>3. QED BY <2>2
<1> HIDE DEF g
<1>4. g \in Nat
  BY <1>1 DEF g
<1>5. n = g + 1
  BY <1>1, <1>2, <1>3, <1>4
<1>6. QED BY <1>5 DEF g

(* The token CReturnPacketTask gives back is that of the block returned    *)
(* last.                                                                   *)
LEMMA MovedIsLast ==
  ASSUME TypeOK, OrderInv, NEW n \in DOMAIN flow, flow[n].st = "moved"
  PROVE  n = Given /\ flow[n].at # Done
<1>1. flow[n].at # Done
  BY Numbers DEF OrderInv
<1>2. n \in 1 .. Len(flow) /\ Given \in 0 .. Len(flow)
  BY FlowFacts DEF OrderInv
<1>3. ~(n > Given) /\ ~(n < Given)
  BY <1>1 DEF OrderInv
<1>4. QED BY <1>1, <1>2, <1>3

LEMMA FilterOrder ==
  ASSUME TypeOK, OrderInv, NEW n \in DOMAIN flow, Filter(n)
  PROVE  OrderInv'
<1> USE Numbers
<1>0. /\ DOMAIN flow = 1 .. Len(flow) /\ n \in 1 .. Len(flow)
      /\ \A m \in DOMAIN flow : flow[m] \in Token
      /\ picked \in Nat /\ published \in Nat /\ moved \in Nat /\ Len(flow) \in Nat
      /\ First \in Nat /\ Given \in 0 .. Len(flow) /\ picked <= published
  BY FlowFacts DEF OrderInv, TypeOK
<1>1. CASE BeginFilter(n)
  <2>1. Becomes(n, flow[n].at, "runs") /\ UNCHANGED <<collect, picked, published, moved>>
    BY <1>1, FilterFlow DEF BeginFilter, collVars, ringVars
  <2>2. First' = First /\ Given' = Given
    BY <2>1 DEF Becomes, First, Given, Opened
  <2>3. flow[n].at = Return => \A m \in 1 .. n - 1 : flow[m].at = Done
    <3>1. SUFFICES ASSUME flow[n].at = Return, NEW m \in 1 .. n - 1 PROVE flow[m].at = Done
      OBVIOUS
    <3>2. m \in DOMAIN flow /\ flow[m].at \in 1 .. Done
      <4>1. m \in 1 .. Len(flow)
        BY <1>0
      <4>2. flow[m] \in Token
        BY <1>0, <4>1
      <4>3. QED BY <1>0, <4>1, <4>2 DEF Token
    <3>3. flow[m].at > Return
      BY <1>1, <3>1 DEF BeginFilter, IsSerial
    <3>4. QED BY <3>2, <3>3
  <2>4. flow[n].at # Done /\ flow[n].st = "waits"
    BY <1>1 DEF BeginFilter
  <2>5. /\ DOMAIN flow' = DOMAIN flow /\ Len(flow') = Len(flow)
        /\ \A m \in DOMAIN flow : flow'[m].at = flow[m].at
        /\ \A m \in DOMAIN flow : flow'[m].st = "moved" => flow[m].st = "moved"
        /\ \A m \in DOMAIN flow : m # n => flow'[m].st = flow[m].st
        /\ flow'[n].st = "runs"
    BY <2>1 DEF Becomes
  <2>6. ASSUME NEW m \in DOMAIN flow
        PROVE  /\ m > Given => flow'[m].at # Done /\ flow'[m].st # "moved"
               /\ m < Given => flow'[m].at = Done
               /\ m = Given => flow'[m].at = Done \/ flow'[m].st = "moved"
               /\ flow'[m].st = "moved" => flow'[m].at = Return
    <3>1. m = Given => m # n \/ flow[m].at = Done
      BY <2>4 DEF OrderInv
    <3>2. QED BY <2>5, <3>1 DEF OrderInv
  <2>7. ASSUME NEW m \in DOMAIN flow, flow'[m].st = "runs", flow'[m].at = Return, NEW j \in 1 .. m - 1
        PROVE  flow'[j].at = Done
    <3>1. j \in DOMAIN flow
      BY <1>0
    <3>2. CASE m = n
      BY <2>3, <2>5, <2>7, <3>1, <3>2
    <3>3. CASE m # n
      BY <2>5, <2>7, <3>1, <3>3 DEF OrderInv
    <3>4. QED BY <3>2, <3>3
  <2>8. picked' <= published' /\ First' \in Nat /\ Given' \in 0 .. Len(flow')
    BY <1>0, <2>1, <2>2, <2>5
  <2>9. QED BY <2>2, <2>5, <2>6, <2>7, <2>8 DEF OrderInv
<1>2. CASE EndFilter(n)
  <2>1. Becomes(n, flow[n].at + 1, "waits") /\ UNCHANGED <<collect, picked, published, moved>>
    BY <1>2, FilterFlow DEF EndFilter, collVars, ringVars
  <2>2. First' = First /\ Given' = Given
    BY <2>1 DEF Becomes, First, Given, Opened
  <2>3. flow[n].at # Done /\ flow[n].at + 1 # Done /\ flow[n].st # "moved"
    <3>1. flow[n].at < Return /\ flow[n].st = "runs"
      BY <1>2 DEF EndFilter
    <3>2. flow[n].at \in Nat
      BY <1>0 DEF Token
    <3>3. QED BY <3>1, <3>2
  <2>4. \A m \in DOMAIN flow : flow'[m].at = Done <=> flow[m].at = Done
    BY <2>1, <2>3 DEF Becomes
  <2>5. QED BY <1>0, <2>1, <2>2, <2>3, <2>4 DEF OrderInv, Becomes
<1>3. CASE ReturnBlk(n)
  <2>1. /\ Becomes(n, Return, "moved") /\ UNCHANGED <<collect, picked, published>>
        /\ moved' = moved + 1 /\ flow[n].at = Return
    BY <1>3, FilterFlow DEF ReturnBlk, collVars
  <2>2. First' = First /\ Given' = Given + 1
    <3>1. First' = First
      BY <2>1 DEF Becomes, First, Opened
    <3>2. Given = moved - First /\ Given' = moved' - First'
      BY DEF Given
    <3>3. QED BY <1>0, <2>1, <3>1, <3>2
  <2>3. n = Given + 1
    BY <1>3, ReturnsInTurn DEF ReturnBlk
  <2>4. \A m \in 1 .. n - 1 : flow[m].at = Done
    BY <1>3 DEF ReturnBlk, OrderInv
  <2>5. \A m \in DOMAIN flow : flow'[m].at = flow[m].at
    BY <2>1 DEF Becomes
  <2>6. Given' \in 0 .. Len(flow')
    BY <1>0, <2>1, <2>2, <2>3 DEF Becomes
  <2>7. ASSUME NEW m \in DOMAIN flow', flow'[m].st = "runs", flow'[m].at = Return
        PROVE  \A i \in 1 .. m - 1 : flow'[i].at = Done
    <3>1. m # n /\ m \in DOMAIN flow /\ flow[m] = flow'[m]
      BY <2>1, <2>7 DEF Becomes
    <3>2. \A i \in 1 .. m - 1 : flow[i].at = Done
      BY <2>7, <3>1 DEF OrderInv
    <3>3. QED BY <1>0, <2>1, <2>5, <3>1, <3>2 DEF Becomes
  <2>8. ASSUME NEW m \in DOMAIN flow'
        PROVE  /\ m > Given' => flow'[m].at # Done /\ flow'[m].st # "moved"
               /\ m < Given' => flow'[m].at = Done
               /\ m = Given' => flow'[m].at = Done \/ flow'[m].st = "moved"
               /\ flow'[m].st = "moved" => flow'[m].at = Return
    <3>1. m \in DOMAIN flow /\ m \in 1 .. Len(flow)
      BY <1>0, <2>1 DEF Becomes
    <3>2. CASE m = n
      BY <2>1, <2>2, <2>3, <3>2, <1>0 DEF Becomes
    <3>3. CASE m # n
      <4>1. flow'[m] = flow[m]
        BY <2>1, <3>1, <3>3 DEF Becomes
      <4>2. m > Given' => m > Given
        BY <1>0, <2>2, <3>1
      <4>3. m < Given' => m \in 1 .. n - 1
        BY <1>0, <2>2, <2>3, <3>1
      <4>4. m # Given'
        BY <2>2, <2>3, <3>3
      <4>5. QED BY <2>4, <3>1, <4>1, <4>2, <4>3, <4>4 DEF OrderInv
    <3>4. QED BY <3>2, <3>3
  <2>9. QED BY <1>0, <2>1, <2>2, <2>6, <2>7, <2>8 DEF OrderInv
<1>4. CASE ReturnToken(n)
  <2>1. Becomes(n, Done, "waits") /\ UNCHANGED <<collect, picked, published, moved>>
    BY <1>4, FilterFlow DEF ReturnToken, collVars, ringVars
  <2>2. First' = First /\ Given' = Given
    BY <2>1 DEF Becomes, First, Given, Opened
  <2>3. n = Given
    BY <1>4, MovedIsLast DEF ReturnToken
  <2>4. \A m \in DOMAIN flow : flow[m].at = Done => flow'[m].at = Done
    BY <2>1 DEF Becomes
  <2>5. QED BY <1>0, <2>1, <2>2, <2>3, <2>4 DEF OrderInv, Becomes
<1>5. QED BY <1>1, <1>2, <1>3, <1>4 DEF Filter

(* Two tokens on their way never share an object.                          *)
LEMMA SlotsDiffer ==
  ASSUME TypeOK, PoolInv, NEW m \in InFlight, NEW n \in InFlight, flow[m].slot = flow[n].slot
  PROVE  m = n
<1>1. m \in 1 .. Len(flow) /\ n \in 1 .. Len(flow) /\ Len(flow) \in Nat /\ curIndex \in Slots
  BY FlowFacts DEF TypeOK
<1>2. Age(m) \in 1 .. Tokens /\ Age(n) \in 1 .. Tokens
  BY <1>1, Numbers DEF PoolInv, Age
<1>3. Back(Age(m)) = Back(Age(n))
  BY DEF PoolInv
<1>4. Age(m) = Age(n)
  BY <1>1, <1>2, <1>3, BackIsSlot
<1>5. QED BY <1>1, <1>4 DEF Age

LEMMA FilterPool ==
  ASSUME TypeOK, OrderInv, PoolInv, NEW n \in DOMAIN flow, Filter(n)
  PROVE  PoolInv'
<1> USE Numbers
<1>0. InFlight \subseteq DOMAIN flow /\ \A m \in DOMAIN flow : flow[m] \in Token
  BY FlowFacts DEF InFlight
<1>1. CASE BeginFilter(n) \/ EndFilter(n) \/ ReturnBlk(n)
  <2>1. /\ Becomes(n, flow[n].at, "runs") \/ Becomes(n, flow[n].at + 1, "waits")
             \/ Becomes(n, Return, "moved")
        /\ UNCHANGED <<collect, picked, used, blkOf, curIndex>>
    BY <1>1, FilterFlow DEF BeginFilter, EndFilter, ReturnBlk, collVars, ringVars, poolVars
  <2>2. flow[n].at # Done /\ flow'[n].at # Done
    <3>1. flow[n].at \in 1 .. Done
      BY <1>0 DEF Token
    <3>2. CASE BeginFilter(n)
      <4>1. flow[n].at # Done /\ Becomes(n, flow[n].at, "runs")
        BY <3>2, FilterFlow DEF BeginFilter
      <4>2. QED BY <4>1 DEF Becomes
    <3>3. CASE EndFilter(n)
      <4>1. flow[n].at < Return /\ Becomes(n, flow[n].at + 1, "waits")
        BY <3>3, FilterFlow DEF EndFilter
      <4>2. flow'[n].at = flow[n].at + 1
        BY <4>1 DEF Becomes
      <4>3. flow[n].at < Return
        BY <4>1
      <4>4. QED BY <3>1, <4>2, <4>3
    <3>4. CASE ReturnBlk(n)
      <4>1. flow[n].at = Return /\ Becomes(n, Return, "moved")
        BY <3>4, FilterFlow DEF ReturnBlk
      <4>2. QED BY <4>1 DEF Becomes
    <3>5. QED BY <1>1, <3>2, <3>3, <3>4
  <2>3. /\ Len(flow') = Len(flow) /\ InFlight' = InFlight
        /\ \A m \in DOMAIN flow : flow'[m].slot = flow[m].slot
    BY <2>1, <2>2 DEF Becomes, InFlight
  <2>4. First' = First /\ \A m \in DOMAIN flow : Age(m)' = Age(m)
    BY <2>1, <2>3 DEF First, Opened, Age
  <2>5. \A j : Back(j)' = Back(j)
    BY <2>1 DEF Back
  <2>6. ASSUME NEW m \in InFlight'
        PROVE  /\ Age(m)' <= Tokens
               /\ collect' # "out" => Age(m)' < Tokens
               /\ flow'[m].slot = Back(Age(m))'
               /\ blkOf'[flow'[m].slot] = First' + m
    BY <1>0, <2>1, <2>3, <2>4, <2>5 DEF PoolInv, Back
  <2>7. \A s \in Slots : used'[s] <=> \E m \in InFlight' : flow'[m].slot = s
    BY <1>0, <2>1, <2>3 DEF PoolInv
  <2>8. QED BY <2>6, <2>7 DEF PoolInv
<1>2. CASE ReturnToken(n)
  <2>1. /\ Becomes(n, Done, "waits") /\ UNCHANGED <<collect, picked, blkOf, curIndex>>
        /\ used' = [used EXCEPT ![flow[n].slot] = FALSE]
    BY <1>2, FilterFlow DEF ReturnToken, Released, collVars, ringVars
  <2>2. n \in InFlight
    BY <1>2, MovedIsLast DEF ReturnToken, InFlight
  <2>3. /\ Len(flow') = Len(flow) /\ InFlight' = InFlight \ {n}
        /\ \A m \in DOMAIN flow : flow'[m].slot = flow[m].slot
    BY <2>1 DEF Becomes, InFlight
  <2>4. First' = First /\ \A m \in DOMAIN flow : Age(m)' = Age(m)
    BY <2>1, <2>3 DEF First, Opened, Age
  <2>6. ASSUME NEW m \in InFlight'
        PROVE  /\ Age(m)' <= Tokens
               /\ collect' # "out" => Age(m)' < Tokens
               /\ flow'[m].slot = Back(Age(m))'
               /\ blkOf'[flow'[m].slot] = First' + m
    BY <1>0, <2>1, <2>3, <2>4 DEF PoolInv, Back
  <2>7. ASSUME NEW s \in Slots PROVE used'[s] <=> \E m \in InFlight' : flow'[m].slot = s
    <3>1. CASE s = flow[n].slot
      <4>1. \A m \in InFlight' : flow'[m].slot # s
        BY <1>0, <2>2, <2>3, <3>1, SlotsDiffer
      <4>2. ~used'[s]
        BY <2>1, <3>1 DEF TypeOK
      <4>3. QED BY <4>1, <4>2
    <3>2. CASE s # flow[n].slot
      <4>1. used'[s] = used[s]
        BY <2>1, <3>2 DEF TypeOK
      <4>2. QED BY <1>0, <2>2, <2>3, <3>2, <4>1 DEF PoolInv
    <3>3. QED BY <3>1, <3>2
  <2>8. QED BY <2>6, <2>7 DEF PoolInv
<1>3. QED BY <1>1, <1>2 DEF Filter

(***************************************************************************)
(* The collect filter.                                                     *)
(***************************************************************************)
(* All tokens after one that is on its way are on their way.               *)
LEMMA AgeIsFewer ==
  ASSUME TypeOK, OrderInv, NEW n \in InFlight
  PROVE  Age(n) <= Cardinality(InFlight)
<1>1. /\ n \in 1 .. Len(flow) /\ Len(flow) \in Nat /\ DOMAIN flow = 1 .. Len(flow)
      /\ InFlight \subseteq 1 .. Len(flow) /\ Given \in 0 .. Len(flow)
  BY FlowFacts DEF OrderInv
<1>2. n >= Given
  BY <1>1 DEF OrderInv, InFlight
<1>3. n .. Len(flow) \subseteq InFlight
  <2> SUFFICES ASSUME NEW m \in n .. Len(flow) PROVE m \in InFlight
    OBVIOUS
  <2>1. m = n \/ m > Given
    BY <1>1, <1>2
  <2>2. m \in DOMAIN flow
    BY <1>1
  <2>3. m = n => m \in InFlight
    OBVIOUS
  <2>4. m > Given => flow[m].at # Done
    BY <2>2 DEF OrderInv
  <2>5. QED BY <2>1, <2>2, <2>3, <2>4 DEF InFlight
<1>4. IsFiniteSet(InFlight)
  <2>1. IsFiniteSet(1 .. Len(flow))
    BY <1>1, FS_Interval
  <2>2. QED BY <1>1, <2>1, FS_Subset
<1>5. Cardinality(n .. Len(flow)) <= Cardinality(InFlight)
  BY <1>3, <1>4, FS_Subset
<1>6. Cardinality(n .. Len(flow)) = Len(flow) - n + 1
  BY <1>1, FS_Interval
<1>7. Len(flow) + 1 - n = Len(flow) - n + 1
  BY <1>1
<1>8. QED BY <1>5, <1>6, <1>7 DEF Age

(* What leaves the tokens and the pool alone keeps the invariant of both.  *)
LEMMA SameFlow ==
  ASSUME UNCHANGED <<flow, moved, First, poolVars>>
  PROVE  /\ OrderInv /\ picked' <= published' => OrderInv'
         /\ PoolInv /\ (collect' # "out" => \A n \in InFlight : Age(n) < Tokens) => PoolInv'
<1>1. Given' = Given /\ InFlight' = InFlight
  BY DEF Given, InFlight
<1>2. ASSUME OrderInv, picked' <= published' PROVE OrderInv'
  BY <1>1, <1>2 DEF OrderInv
<1>3. ASSUME PoolInv, collect' # "out" => \A n \in InFlight : Age(n) < Tokens PROVE PoolInv'
  <2>1. \A n \in InFlight : Age(n)' = Age(n) /\ Back(Age(n))' = Back(Age(n))
    BY DEF Age, Back, poolVars
  <2>2. UNCHANGED <<used, blkOf, First>> /\ flow' = flow
    BY DEF poolVars
  <2>3. QED BY <1>1, <1>3, <2>1, <2>2 DEF PoolInv
<1>4. QED BY <1>2, <1>3

LEMMA CollectTokenPool ==
  ASSUME TypeOK, OrderInv, PoolInv, CollectToken
  PROVE  OrderInv' /\ PoolInv'
<1> USE Numbers
<1> DEFINE len == Len(flow)
           token == [slot |-> curIndex, at |-> 1, st |-> "waits"]
<1>0. /\ DOMAIN flow = 1 .. Len(flow) /\ InFlight \subseteq 1 .. Len(flow)
      /\ \A m \in DOMAIN flow : flow[m] \in Token
      /\ picked \in Nat /\ moved \in Nat /\ len \in Nat /\ curIndex \in Slots
      /\ First \in Nat /\ Given \in 0 .. len
  BY FlowFacts DEF OrderInv, TypeOK
<1>1. token \in Token /\ token.slot = curIndex /\ token.at = 1 /\ token.st = "waits"
  BY <1>0 DEF Token
<1>2. /\ flow' = Append(flow, token)
      /\ collect = "token" /\ collect' = "out"
      /\ UNCHANGED <<published, picked, moved>>
      /\ used' = [used EXCEPT ![curIndex] = TRUE] /\ blkOf' = [blkOf EXCEPT ![curIndex] = picked]
      /\ curIndex' = NextIndex
  BY DEF CollectToken, GetBlock, ringVars
<1> HIDE DEF token
<1>3. /\ DOMAIN flow' = 1 .. len + 1 /\ Len(flow') = len + 1
      /\ flow'[len + 1] = token /\ \A m \in DOMAIN flow : flow'[m] = flow[m]
  BY <1>1, <1>2, FlowAppend
<1>4. First' = First /\ Given' = Given /\ picked = First + (len + 1)
  <2>1. First = picked - 1 - len /\ First' = picked - 0 - (len + 1)
    BY <1>2, <1>3 DEF First, Opened
  <2>2. Given = moved - First /\ Given' = moved - First'
    BY <1>2 DEF Given
  <2> HIDE DEF len
  <2>3. QED BY <1>0, <2>1, <2>2
<1>5. Done # 1 /\ Return # Done
  OBVIOUS
<1>6. OrderInv'
  <2>1. \A m \in DOMAIN flow' : m = len + 1 \/ (m \in DOMAIN flow /\ m # len + 1)
    BY <1>0, <1>3
  <2>2. ASSUME NEW m \in DOMAIN flow', flow'[m].st = "runs"
        PROVE  m \in DOMAIN flow /\ \A i \in 1 .. m - 1 : i \in DOMAIN flow
    BY <1>0, <1>1, <1>3, <2>1, <2>2
  <2>3. len + 1 > Given
    BY <1>0
  <2>4. ASSUME NEW m \in DOMAIN flow'
        PROVE  /\ m > Given => flow'[m].at # Done /\ flow'[m].st # "moved"
               /\ m < Given => flow'[m].at = Done
               /\ m = Given => flow'[m].at = Done \/ flow'[m].st = "moved"
               /\ flow'[m].st = "moved" => flow'[m].at = Return
    <3>1. CASE m = len + 1
      BY <1>0, <1>1, <1>3, <1>5, <2>3, <3>1
    <3>2. CASE m \in DOMAIN flow
      BY <1>3, <3>2 DEF OrderInv
    <3>3. QED BY <2>1, <3>1, <3>2
  <2>5. ASSUME NEW m \in DOMAIN flow', flow'[m].st = "runs", flow'[m].at = Return
        PROVE  \A i \in 1 .. m - 1 : flow'[i].at = Done
    <3>1. m \in DOMAIN flow /\ \A i \in 1 .. m - 1 : i \in DOMAIN flow
      BY <2>2, <2>5
    <3>2. QED BY <1>3, <2>5, <3>1 DEF OrderInv
  <2>6. picked' <= published' /\ First' \in Nat /\ Given' \in 0 .. Len(flow')
    BY <1>0, <1>2, <1>3, <1>4 DEF OrderInv
  <2>7. QED BY <1>4, <2>4, <2>5, <2>6 DEF OrderInv
<1>7. InFlight' = InFlight \cup {len + 1}
  <2>1. \A m \in 1 .. len + 1 : m = len + 1 \/ m \in DOMAIN flow
    BY <1>0
  <2>2. \A m \in DOMAIN flow : m \in 1 .. len + 1 /\ m # len + 1
    BY <1>0
  <2>3. len + 1 \in 1 .. len + 1
    BY <1>0
  <2>4. QED BY <1>1, <1>3, <1>5, <2>1, <2>2, <2>3 DEF InFlight
<1>8. ASSUME NEW m \in InFlight
      PROVE  /\ Age(m) \in 1 .. Tokens - 1 /\ Age(m)' = Age(m) + 1
             /\ flow'[m] = flow[m] /\ flow[m].slot = Back(Age(m)) /\ flow[m].slot # curIndex
             /\ blkOf'[flow[m].slot] = First + m /\ m # len + 1
  <2>1. m \in 1 .. len /\ m \in DOMAIN flow /\ m # len + 1
    BY <1>0
  <2>2. Age(m) < Tokens /\ flow[m].slot = Back(Age(m)) /\ blkOf[flow[m].slot] = First + m
    BY <1>2 DEF PoolInv
  <2>3. Age(m) \in 1 .. Tokens - 1 /\ Age(m)' = Age(m) + 1
    <3>1. Age(m) = len + 1 - m /\ Age(m)' = len + 1 + 1 - m
      BY <1>3 DEF Age
    <3>2. Age(m) \in Nat
      BY <2>1, <3>1, <1>0
    <3>3. QED BY <1>0, <2>1, <2>2, <3>1, <3>2
  <2>4. Back(Age(m)) # curIndex
    <3>1. Age(m) \in 1 .. Tokens /\ Age(m) # Tokens
      BY <2>3
    <3>2. QED BY <1>0, <3>1, BackIsSlot
  <2>5. flow[m].slot \in Slots
    BY <1>0, <2>1 DEF Token
  <2>6. blkOf'[flow[m].slot] = blkOf[flow[m].slot]
    BY <1>2, <2>2, <2>4, <2>5 DEF TypeOK
  <2>7. QED BY <1>3, <2>1, <2>2, <2>3, <2>4, <2>6
<1>9. Back(1)' = curIndex /\ \A j \in 1 .. Tokens - 1 : Back(j + 1)' = Back(j)
  BY <1>0, <1>2, BackAfterGet
<1>10. /\ \A i : i = len + 1 => Age(i)' = 1
       /\ flow'[len + 1].slot = curIndex /\ blkOf'[curIndex] = picked
  <2>1. flow'[len + 1].slot = curIndex
    BY <1>1, <1>3
  <2>2. blkOf'[curIndex] = picked
    BY <1>0, <1>2 DEF TypeOK
  <2>3. \A i : i = len + 1 => Age(i)' = 1
    <3>1. \A i : Age(i)' = len + 1 + 1 - i
      BY <1>3 DEF Age
    <3>2. len + 1 + 1 - (len + 1) = 1
      BY <1>0
    <3>3. QED BY <3>1, <3>2
  <2>4. QED BY <2>1, <2>2, <2>3
<1>a. \A i, j : j = Age(i)' => Back(Age(i))' = Back(j)'
  BY DEF Back
<1>11. ASSUME NEW m \in InFlight'
       PROVE  /\ Age(m)' <= Tokens
              /\ flow'[m].slot = Back(Age(m))'
              /\ blkOf'[flow'[m].slot] = First' + m
  <2>1. CASE m = len + 1
    <3>1. Age(m)' = 1
      BY <1>10, <2>1
    <3>2. Back(Age(m))' = curIndex
      BY <1>9, <1>a, <3>1
    <3>3. flow'[m].slot = curIndex /\ blkOf'[curIndex] = First' + m
      BY <1>4, <1>10, <2>1
    <3>4. QED BY <3>1, <3>2, <3>3
  <2>2. CASE m \in InFlight
    <3>1. PICK a \in 1 .. Tokens - 1 : a = Age(m)
      BY <1>8, <2>2
    <3>2. Back(Age(m)) = Back(a)
      BY <3>1
    <3>3. Age(m)' = a + 1 /\ a + 1 <= Tokens
      BY <1>8, <2>2, <3>1
    <3>4. Back(Age(m))' = Back(a)
      BY <1>9, <1>a, <3>3
    <3>5. QED BY <1>4, <1>8, <2>2, <3>2, <3>3, <3>4
  <2>3. QED BY <1>7, <2>1, <2>2
<1>12. ASSUME NEW s \in Slots PROVE used'[s] <=> \E m \in InFlight' : flow'[m].slot = s
  <2>1. CASE s = curIndex
    BY <1>2, <1>7, <1>10, <2>1 DEF TypeOK
  <2>2. CASE s # curIndex
    <3>1. used'[s] = used[s]
      BY <1>2, <2>2 DEF TypeOK
    <3>2. (\E m \in InFlight' : flow'[m].slot = s) <=> \E m \in InFlight : flow[m].slot = s
      BY <1>7, <1>8, <1>10, <2>2
    <3>3. QED BY <3>1, <3>2 DEF PoolInv
  <2>3. QED BY <2>1, <2>2
<1>13. PoolInv'
  BY <1>2, <1>11, <1>12 DEF PoolInv
<1>14. QED BY <1>6, <1>13

(***************************************************************************)
(* The inductive invariant.                                                *)
(***************************************************************************)
LEMMA PipeInit == Init => PipeInv
<1> SUFFICES ASSUME Init PROVE PipeInv
  OBVIOUS
<1> USE Numbers DEF Init
<1>1. 0 \in Slots /\ flow = <<>> /\ flow \in Seq(Token) /\ Len(flow) = 0 /\ DOMAIN flow = {}
  BY EmptySeq DEF Slots
<1>2. TypeOK
  BY <1>1 DEF TypeOK, Token
<1>3. RunInv
  BY DEF RunInv
<1>4. First = 0 /\ Given = 0
  BY <1>1 DEF First, Given, Opened
<1>5. OrderInv
  BY <1>1, <1>4 DEF OrderInv
<1>6. PoolInv
  BY <1>1 DEF PoolInv, InFlight
<1>7. QED BY <1>2, <1>3, <1>5, <1>6 DEF PipeInv

(* A block is returned only once it has been picked.                       *)
LEMMA ReturnedIsPicked ==
  ASSUME TypeOK, OrderInv, NEW n \in DOMAIN flow, ReturnBlk(n)
  PROVE  moved + 1 \in 0 .. MaxBlk
<1>1. n = Given + 1 /\ n \in 1 .. Len(flow)
  BY ReturnsInTurn, FlowFacts DEF ReturnBlk
<1>2. /\ Given \in Nat /\ First \in Nat /\ Len(flow) \in Nat /\ Opened \in 0 .. 1
      /\ picked \in 0 .. MaxBlk /\ moved \in 0 .. MaxBlk /\ MaxBlk \in Nat
  BY Numbers, FlowFacts DEF OrderInv, TypeOK, Opened
<1>3. First = picked - Opened - Len(flow) /\ Given = moved - First
  BY DEF First, Given
<1> DEFINE l == Len(flow)  f == First  g == Given  o == Opened
<1>4. /\ n = g + 1 /\ n \in 1 .. l /\ g \in Nat /\ f \in Nat /\ l \in Nat /\ o \in 0 .. 1
      /\ f = picked - o - l /\ g = moved - f
  BY <1>1, <1>2, <1>3
<1> HIDE DEF l, f, g, o
<1>5. QED BY <1>2, <1>4

LEMMA TypeNext ==
  ASSUME TypeOK, OrderInv, [Next]_vars
  PROVE  TypeOK'
<1> USE Numbers
<1>0. /\ flow \in Seq(Token) /\ <<>> \in Seq(Token) /\ 0 \in 0 .. PosMod - 1
      /\ filters <= Return => filters + 1 \in 0 .. Return + 1
      /\ runs < MaxRuns => runs + 1 \in 0 .. MaxRuns
      /\ published < MaxBlk => published + 1 \in 0 .. MaxBlk
  BY FlowFacts, EmptySeq DEF TypeOK
<1>1. CASE AddTask
  BY <1>0, <1>1 DEF AddTask, TypeOK, collVars, ringVars, poolVars
<1>a. CASE Start
  BY <1>0, <1>a DEF Start, TypeOK, ringVars, poolVars
<1>b. CASE Publish
  BY <1>0, <1>b DEF Publish, TypeOK, mgrVars, collVars, poolVars
<1>2. CASE Finish
  <2>1. flow' \in Seq(Token) /\ filters' \in 0 .. Return + 1
    BY <1>0, <1>2 DEF Finish
  <2>2. QED BY <1>2, <2>1 DEF Finish, TypeOK, Token, collVars, ringVars, poolVars
<1>3. CASE CollectCall
  BY <1>3 DEF CollectCall, TypeOK, ringVars, poolVars, mgrVars
<1>c. CASE CollectEnd
  BY <1>0, <1>c DEF CollectEnd, TypeOK, ringVars, poolVars, mgrVars
<1>4. CASE CollectBlk
  <2>1. (ringPos + 1) % PosMod \in 0 .. PosMod - 1
    BY SMT DEF TypeOK
  <2>2. ringPos' \in 0 .. PosMod - 1
    BY <1>4, <2>1 DEF CollectBlk, TypeOK
  <2>3. picked' \in 0 .. MaxBlk /\ collect' \in {"out", "loop", "token", "aborted"}
    BY <1>4 DEF CollectBlk, TypeOK
  <2>4. QED BY <1>4, <2>2, <2>3 DEF CollectBlk, TypeOK, poolVars, mgrVars
<1>5. CASE CollectToken
  <2> DEFINE token == [slot |-> curIndex, at |-> 1, st |-> "waits"]
  <2>1. token \in Token /\ flow' = Append(flow, token)
    BY <1>5 DEF CollectToken, Token, TypeOK
  <2> HIDE DEF token
  <2>2. flow' \in Seq(Token)
    BY <2>1, FlowAppend
  <2>3. curIndex' \in Slots
    BY <1>5, NextIndexIs DEF CollectToken, GetBlock, TypeOK
  <2>4. isSeenStop' \in BOOLEAN
    BY <1>5 DEF CollectToken, SeesStop
  <2>5. QED BY <1>5, <2>2, <2>3, <2>4 DEF CollectToken, GetBlock, TypeOK, Token, mgrVars, ringVars
<1>6. ASSUME NEW n \in DOMAIN flow, Filter(n) PROVE TypeOK'
  <2>1. flow' \in Seq(Token)
    BY <1>6, FilterFlow DEF Filter, Becomes
  <2>2. moved' \in 0 .. MaxBlk
    BY <1>6, ReturnedIsPicked
       DEF Filter, BeginFilter, EndFilter, ReturnBlk, ReturnToken, ringVars, TypeOK
  <2>3. used' \in [Slots -> BOOLEAN]
    BY <1>6 DEF Filter, BeginFilter, EndFilter, ReturnBlk, ReturnToken, Released, poolVars, TypeOK
  <2>4. UNCHANGED <<mgrVars, collVars, published, picked, curIndex, blkOf>>
    BY <1>6 DEF Filter, BeginFilter, EndFilter, ReturnBlk, ReturnToken, ringVars, poolVars
  <2>5. QED BY <2>1, <2>2, <2>3, <2>4 DEF TypeOK, Token, mgrVars, collVars
<1>7. CASE UNCHANGED vars
  BY <1>7 DEF TypeOK, vars, mgrVars, collVars, ringVars, poolVars
<1>8. QED BY <1>1, <1>a, <1>b, <1>2, <1>3, <1>c, <1>4, <1>5, <1>6, <1>7 DEF Next, Collect

LEMMA RunNext ==
  ASSUME TypeOK, RunInv, [Next]_vars
  PROVE  RunInv'
<1> USE Numbers DEF RunInv
<1>1. CASE AddTask \/ Start \/ Publish
  BY <1>1 DEF AddTask, Start, Publish, collVars, ringVars, mgrVars
<1>2. CASE Finish
  BY <1>2 DEF Finish, collVars, ringVars
<1>3. CASE CollectCall \/ CollectEnd
  BY <1>3 DEF CollectCall, CollectEnd, ringVars, mgrVars
<1>4. CASE CollectBlk
  BY <1>4 DEF CollectBlk, mgrVars
<1>5. CASE CollectToken
  BY <1>5 DEF CollectToken, SeesStop, mgrVars, ringVars
<1>6. ASSUME NEW n \in DOMAIN flow, Filter(n) PROVE RunInv'
  <2>1. UNCHANGED <<mgrVars, collVars, published, picked>>
    BY <1>6 DEF Filter, BeginFilter, EndFilter, ReturnBlk, ReturnToken, ringVars
  <2>2. flow # <<>>
    BY <1>6, EmptySeq, FlowFacts
  <2>3. QED BY <2>1, <2>2 DEF mgrVars, collVars
<1>7. CASE UNCHANGED vars
  BY <1>7 DEF vars, mgrVars, collVars, ringVars
<1>8. QED BY <1>1, <1>2, <1>3, <1>4, <1>5, <1>6, <1>7 DEF Next, Collect

LEMMA OrderPoolNext ==
  ASSUME TypeOK, RunInv, OrderInv, PoolInv, [Next]_vars
  PROVE  OrderInv' /\ PoolInv'
<1> USE Numbers
<1>1. CASE AddTask \/ Start \/ Publish \/ CollectCall \/ CollectBlk \/ CollectEnd \/ UNCHANGED vars
  <2>1. UNCHANGED <<flow, moved, poolVars>>
    BY <1>1 DEF AddTask, Start, Publish, CollectCall, CollectBlk, CollectEnd, vars, ringVars
  <2>2. First' = First
    <3>1. picked' - Opened' = picked - Opened
      <4>1. CASE CollectBlk
        <5>1. picked' = picked + 1 /\ Opened = 0 /\ Opened' = 1 /\ picked \in Nat
          BY <4>1 DEF CollectBlk, Opened, TypeOK
        <5>2. QED BY <5>1
      <4>2. CASE ~CollectBlk
        BY <1>1, <4>2 DEF AddTask, Start, Publish, CollectCall, CollectEnd, vars,
                          ringVars, collVars, Opened
      <4>3. QED BY <4>1, <4>2
    <3>2. QED BY <2>1, <3>1 DEF First
  <2>3. picked' <= published'
    BY <1>1 DEF AddTask, Start, Publish, CollectCall, CollectBlk, CollectEnd, vars, ringVars,
                OrderInv, TypeOK
  <2>4. ASSUME collect' # "out", NEW n \in InFlight PROVE Age(n) < Tokens
    <3>1. CASE CollectCall
      <4>1. Cardinality(InFlight) < Tokens /\ Age(n) <= Cardinality(InFlight)
        BY <3>1, AgeIsFewer DEF CollectCall, Room
      <4>2. IsFiniteSet(InFlight) /\ Age(n) \in Int
        <5>1. /\ InFlight \subseteq 1 .. Len(flow) /\ Len(flow) \in Nat
              /\ n \in 1 .. Len(flow)
          BY FlowFacts
        <5>2. IsFiniteSet(1 .. Len(flow))
          BY <5>1, FS_Interval
        <5>3. IsFiniteSet(InFlight)
          BY <5>1, <5>2, FS_Subset
        <5>4. QED BY <5>1, <5>3 DEF Age
      <4>3. Cardinality(InFlight) \in Nat
        BY <4>2, FS_CardinalityType
      <4>4. QED BY <4>1, <4>2, <4>3
    <3>2. CASE collect # "out"
      BY <3>2 DEF PoolInv
    <3>3. QED BY <1>1, <2>4, <3>1, <3>2
              DEF AddTask, Start, Publish, CollectBlk, CollectEnd, vars, collVars
  <2>5. QED BY <2>1, <2>2, <2>3, <2>4, SameFlow
<1>2. CASE Finish
  <2>1. /\ flow' = <<>> /\ collect = "out" /\ UNCHANGED <<collect, picked, moved, published, poolVars>>
        /\ \A n \in DOMAIN flow : flow[n].at = Done
    BY <1>2 DEF Finish, RunInv, collVars, ringVars
  <2>2. Len(flow') = 0 /\ DOMAIN flow' = {}
    BY <2>1, EmptySeq
  <2>3. InFlight = {} /\ InFlight' = {}
    BY <2>1, <2>2 DEF InFlight
  <2>4. Given = Len(flow)
    <3>1. Given \in 0 .. Len(flow) /\ Len(flow) \in Nat /\ DOMAIN flow = 1 .. Len(flow)
      BY FlowFacts DEF OrderInv
    <3>2. ASSUME Given # Len(flow) PROVE FALSE
      <4>1. Len(flow) \in DOMAIN flow /\ Len(flow) > Given
        <5> DEFINE l == Len(flow)  g == Given
        <5>1. l \in Nat /\ g \in 0 .. l /\ g # l
          BY <3>1, <3>2
        <5> HIDE DEF l, g
        <5>2. l \in 1 .. l /\ l > g
          BY <5>1
        <5>3. QED BY <3>1, <5>2 DEF l, g
      <4>2. QED BY <2>1, <4>1 DEF OrderInv
    <3>3. QED BY <3>2
  <2>5. First' = picked /\ moved = picked
    <3>1. First = picked - 0 - Len(flow) /\ First' = picked - 0 - 0
      BY <2>1, <2>2 DEF First, Opened
    <3>2. moved - First = Len(flow) /\ Len(flow) \in Nat /\ picked \in Nat /\ moved \in Nat
      BY <2>4, FlowFacts DEF Given, TypeOK
    <3>3. QED BY <3>1, <3>2
  <2>6. First' \in Nat /\ Given' = 0 /\ picked' <= published'
    BY <2>1, <2>5 DEF Given, TypeOK, OrderInv
  <2>7. QED BY <2>1, <2>2, <2>3, <2>6 DEF OrderInv, PoolInv, poolVars
<1>3. CASE CollectToken
  BY <1>3, CollectTokenPool
<1>4. ASSUME NEW n \in DOMAIN flow, Filter(n) PROVE OrderInv' /\ PoolInv'
  BY <1>4, FilterOrder, FilterPool
<1>5. QED BY <1>1, <1>2, <1>3, <1>4 DEF Next, Collect

LEMMA PipeNext == PipeInv /\ [Next]_vars => PipeInv'
  BY TypeNext, RunNext, OrderPoolNext DEF PipeInv

(***************************************************************************)
(* The theorems.                                                           *)
(***************************************************************************)
(* The variables keep their types, whatever the filters, the tokens and    *)
(* the number of runs: no more blocks are returned than were picked.       *)
THEOREM TypeCorrect == Spec => []TypeOK
<1>1. PipeInv => TypeOK
  BY DEF PipeInv
<1>2. QED BY <1>1, PipeInit, PipeNext, PTL DEF Spec

(* CReturnPacketTask never returns the block of a token that is still on   *)
(* its way, although it does not say which block it returns.               *)
THEOREM BlksStayMine == Spec => []BlkStaysMine
<1>1. PipeInv => BlkStaysMine
  <2> SUFFICES ASSUME PipeInv, NEW n \in InFlight
               PROVE  /\ flow[n].st # "moved" => moved < blkOf[flow[n].slot]
                      /\ flow[n].st = "moved" => moved = blkOf[flow[n].slot]
    BY DEF BlkStaysMine
  <2> USE DEF PipeInv
  <2>1. /\ n \in DOMAIN flow /\ n \in 1 .. Len(flow) /\ flow[n].at # Done
        /\ First \in Int /\ Given \in Int /\ blkOf[flow[n].slot] = First + n
    BY FlowFacts DEF InFlight, OrderInv, PoolInv
  <2>2. moved = First + Given
    <3>1. Given = moved - First /\ moved \in Nat
      BY DEF Given, TypeOK
    <3>2. QED BY <2>1, <3>1
  <2>3. CASE flow[n].st = "moved"
    BY <2>1, <2>2, <2>3, MovedIsLast
  <2>4. CASE flow[n].st # "moved"
    <3>1. n > Given
      BY <2>1, <2>4 DEF OrderInv
    <3>2. QED BY <2>1, <2>2, <2>4, <3>1
  <2>5. QED BY <2>3, <2>4
<1>2. QED BY <1>1, PipeInit, PipeNext, PTL DEF Spec

(* No token of the pool is lost, and none is handed out twice.             *)
THEOREM TokensAreAccounted == Spec => []TokensAccounted
<1>1. PipeInv => TokensAccounted
  <2> SUFFICES ASSUME PipeInv PROVE TokensAccounted
    OBVIOUS
  <2> USE DEF PipeInv
  <2>1. \A n \in InFlight : flow[n].slot \in Slots
    BY FlowFacts DEF InFlight, Token
  <2>2. {s \in Slots : used[s]} = {flow[n].slot : n \in InFlight}
    BY <2>1 DEF PoolInv
  <2>3. QED BY <2>2, SlotsDiffer DEF TokensAccounted
<1>2. QED BY <1>1, PipeInit, PipeNext, PTL DEF Spec

(* The object in turn is free whenever the collect filter needs one.       *)
THEOREM GetBlockNeverWaits == Spec => []GetBlockNeverSpins
<1>1. PipeInv => GetBlockNeverSpins
  <2> SUFFICES ASSUME PipeInv, collect = "token", NEW n \in InFlight PROVE flow[n].slot # curIndex
    BY DEF GetBlockNeverSpins, PipeInv, PoolInv, TypeOK
  <2> USE DEF PipeInv
  <2>1. n \in 1 .. Len(flow) /\ Len(flow) \in Nat /\ curIndex \in Slots
    BY FlowFacts DEF TypeOK
  <2>2. Age(n) < Tokens /\ flow[n].slot = Back(Age(n))
    BY DEF PoolInv
  <2>3. Age(n) \in 1 .. Tokens
    BY <2>1, <2>2, Numbers DEF Age
  <2>4. QED BY <2>1, <2>2, <2>3, BackIsSlot, Numbers
<1>2. QED BY <1>1, PipeInit, PipeNext, PTL DEF Spec

(* When start() has returned, every block taken has been given back, every *)
(* token is in the pool again, and the last block was a stop signal.       *)
THEOREM EndsAreClean == Spec => []EndIsClean
<1>1. PipeInv => EndIsClean
  <2> SUFFICES ASSUME PipeInv, ~isRunning
               PROVE  /\ picked = moved
                      /\ \A s \in Slots : ~used[s]
                      /\ runs > 0 => picked \in StopBlks
    BY DEF EndIsClean
  <2> USE DEF PipeInv
  <2>1. flow = <<>> /\ collect = "out" /\ (runs > 0 => picked \in StopBlks)
    BY DEF RunInv
  <2>2. Len(flow) = 0 /\ DOMAIN flow = {}
    BY <2>1, EmptySeq
  <2>3. \A s \in Slots : ~used[s]
    BY <2>2 DEF PoolInv, InFlight
  <2>4. picked = moved
    <3>1. First = picked - 0 - 0 /\ Given = 0 /\ Given = moved - First
      BY <2>1, <2>2 DEF First, Opened, Given, OrderInv
    <3>2. QED BY <3>1 DEF TypeOK
  <2>5. QED BY <2>1, <2>3, <2>4
<1>2. QED BY <1>1, PipeInit, PipeNext, PTL DEF Spec

=============================================================================
