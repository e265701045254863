--------------------------- MODULE FilePoolProofs ---------------------------
(***************************************************************************)
(* Proofs about the file pool, for any number of handler threads, request  *)
(* objects and events: a request is in one place only, and the file pool   *)
(* is a client the thread pool allows for, so that what is proved of the   *)
(* thread pool holds of the pool of the handlers.                          *)
(***************************************************************************)
EXTENDS FilePool, ThreadPoolProofs

Elems(s) == {s[i] : i \in DOMAIN s}
OnceEach(s) == \A i, j \in DOMAIN s : s[i] = s[j] => i = j

(* The requests in use are with a client, in the kernel, finished or with  *)
(* a handler, ...                                                          *)
Somewhere ==
  used = held \cup refused \cup kernel \cup Elems(events)
         \cup UNION {Elems(batch[t]) : t \in Threads}

(* ... and nowhere else at the same time.                                  *)
Nowhere(r) == r \notin Elems(events) /\ \A t \in Threads : r \notin Elems(batch[t])

Apart ==
  /\ held \cap refused = {} /\ held \cap kernel = {} /\ refused \cap kernel = {}
  /\ \A r \in held \cup refused \cup kernel : Nowhere(r)
  /\ OnceEach(events)
  /\ \A t \in Threads : OnceEach(batch[t]) /\ Elems(events) \cap Elems(batch[t]) = {}
  /\ \A t \in Threads : \A v \in Threads \ {t} : Elems(batch[t]) \cap Elems(batch[v]) = {}

FileInv == FileTypeOK /\ Somewhere /\ Apart

(***************************************************************************)
(* The operators on sequences.                                             *)
(***************************************************************************)
LEMMA ElemsFacts ==
  ASSUME NEW S, NEW s \in Seq(S)
  PROVE  /\ DOMAIN s = 1 .. Len(s) /\ Len(s) \in Nat /\ Elems(s) \subseteq S
         /\ s = <<>> <=> Elems(s) = {}
<1>1. DOMAIN s = 1 .. Len(s) /\ Len(s) \in Nat /\ Elems(s) \subseteq S
  BY LenProperties, ElementOfSeq DEF Elems
<1>2. s = <<>> => Elems(s) = {}
  BY <1>1, EmptySeq DEF Elems
<1>3. s # <<>> => s[1] \in Elems(s)
  BY <1>1, EmptySeq DEF Elems
<1>4. QED BY <1>1, <1>2, <1>3

LEMMA UnionElems ==
  ASSUME NEW S, NEW f
  PROVE  \A x : x \in UNION {Elems(f[v]) : v \in S} <=> \E v \in S : x \in Elems(f[v])
<1> TAKE x
<1>1. ASSUME NEW v \in S, x \in Elems(f[v]) PROVE x \in UNION {Elems(f[w]) : w \in S}
  BY <1>1
<1>2. ASSUME x \in UNION {Elems(f[w]) : w \in S} PROVE \E v \in S : x \in Elems(f[v])
  BY <1>2
<1>3. QED BY <1>1, <1>2

LEMMA AppendElems ==
  ASSUME NEW S, NEW s \in Seq(S), NEW x \in S
  PROVE  /\ Append(s, x) \in Seq(S) /\ Elems(Append(s, x)) = Elems(s) \cup {x}
         /\ OnceEach(s) /\ x \notin Elems(s) => OnceEach(Append(s, x))
<1> DEFINE a == Append(s, x)  n == Len(s)
<1>1. /\ a \in Seq(S) /\ DOMAIN a = 1 .. n + 1 /\ DOMAIN s = 1 .. n /\ n \in Nat
      /\ a[n+1] = x /\ \A i \in 1 .. n : a[i] = s[i]
  BY AppendProperties, LenProperties
<1> HIDE DEF a, n
<1>2. \A i \in 1 .. n + 1 : i \in 1 .. n \/ i = n + 1
  BY <1>1
<1>3. n + 1 \in 1 .. n + 1 /\ \A i \in 1 .. n : i \in 1 .. n + 1
  BY <1>1
<1>4. Elems(a) = Elems(s) \cup {x}
  BY <1>1, <1>2, <1>3 DEF Elems
<1>5. ASSUME OnceEach(s), x \notin Elems(s) PROVE OnceEach(a)
  BY <1>1, <1>2, <1>5 DEF Elems, OnceEach
<1>6. QED BY <1>1, <1>4, <1>5 DEF a

LEMMA TailElems ==
  ASSUME NEW S, NEW s \in Seq(S), s # <<>>
  PROVE  /\ Head(s) \in Elems(s) /\ Tail(s) \in Seq(S) /\ Len(Tail(s)) = Len(s) - 1
         /\ OnceEach(s) => OnceEach(Tail(s)) /\ Elems(Tail(s)) = Elems(s) \ {Head(s)}
<1> DEFINE u == Tail(s)  n == Len(s)
<1>1. /\ u \in Seq(S) /\ Len(u) = n - 1 /\ DOMAIN u = 1 .. n - 1 /\ DOMAIN s = 1 .. n
      /\ n \in Nat /\ n >= 1 /\ Head(s) = s[1] /\ \A i \in 1 .. n - 1 : u[i] = s[i+1]
  BY HeadTailProperties, LenProperties, EmptySeq
<1> HIDE DEF u, n
<1>2. \A i \in 1 .. n - 1 : i + 1 \in 1 .. n /\ i + 1 # 1
  BY <1>1
<1>3. \A i \in 1 .. n : i = 1 \/ (i - 1 \in 1 .. n - 1 /\ (i - 1) + 1 = i)
  BY <1>1
<1>4. ASSUME OnceEach(s) PROVE OnceEach(u)
  <2> SUFFICES ASSUME NEW i \in 1 .. n - 1, NEW j \in 1 .. n - 1, u[i] = u[j] PROVE i = j
    BY <1>1 DEF OnceEach
  <2>1. s[i+1] = s[j+1] /\ i + 1 \in 1 .. n /\ j + 1 \in 1 .. n
    BY <1>1, <1>2
  <2>2. i + 1 = j + 1
    BY <1>1, <1>4, <2>1 DEF OnceEach
  <2>3. QED BY <2>2
<1>5. ASSUME OnceEach(s) PROVE Elems(u) = Elems(s) \ {s[1]}
  <2>1. \A i \in 1 .. n - 1 : u[i] \in Elems(s) /\ u[i] # s[1]
    <3> TAKE i \in 1 .. n - 1
    <3>1. i + 1 \in 1 .. n /\ i + 1 # 1 /\ 1 \in 1 .. n /\ u[i] = s[i+1]
      BY <1>1, <1>2
    <3>2. QED BY <1>1, <1>5, <3>1 DEF Elems, OnceEach
  <2>2. \A i \in 1 .. n : s[i] # s[1] => s[i] \in Elems(u)
    <3> SUFFICES ASSUME NEW i \in 1 .. n, s[i] # s[1] PROVE s[i] \in Elems(u)
      OBVIOUS
    <3>1. i - 1 \in 1 .. n - 1 /\ (i - 1) + 1 = i
      BY <1>3
    <3>2. u[i - 1] = s[i]
      BY <1>1, <3>1
    <3>3. QED BY <1>1, <3>1, <3>2 DEF Elems
  <2>3. Elems(u) \subseteq Elems(s) \ {s[1]}
    BY <1>1, <2>1 DEF Elems
  <2>4. Elems(s) \ {s[1]} \subseteq Elems(u)
    BY <1>1, <2>2 DEF Elems
  <2>5. QED BY <2>3, <2>4
<1>6. Head(s) \in Elems(s)
  BY <1>1 DEF Elems
<1>7. QED BY <1>1, <1>4, <1>5, <1>6 DEF u, n

LEMMA SplitElems ==
  ASSUME NEW S, NEW s \in Seq(S), NEW n \in 1 .. Len(s)
  PROVE  LET front == SubSeq(s, 1, n)
             back  == SubSeq(s, n + 1, Len(s))
         IN  /\ front \in Seq(S) /\ back \in Seq(S) /\ front # <<>>
             /\ Elems(s) = Elems(front) \cup Elems(back)
             /\ OnceEach(s) => /\ OnceEach(front) /\ OnceEach(back)
                               /\ Elems(front) \cap Elems(back) = {}
<1> DEFINE front == SubSeq(s, 1, n)  back == SubSeq(s, n + 1, Len(s))  l == Len(s)
<1>1. l \in Nat /\ DOMAIN s = 1 .. l /\ n \in 1 .. l /\ \A i \in 1 .. l : s[i] \in S
  BY LenProperties, ElementOfSeq
<1>2. /\ front \in Seq(S) /\ Len(front) = n /\ DOMAIN front = 1 .. n
      /\ \A i \in 1 .. n : front[i] = s[i]
  <2>1. \A i \in 1 .. n : s[i] \in S
    BY <1>1
  <2>2. /\ front \in Seq(S) /\ Len(front) = IF 1 <= n THEN n - 1 + 1 ELSE 0
        /\ \A i \in 1 .. n - 1 + 1 : front[i] = s[1 + i - 1]
    BY <1>1, <2>1, SubSeqProperties
  <2>3. DOMAIN front = 1 .. Len(front)
    BY <2>2, LenProperties
  <2> HIDE DEF front, l
  <2>4. (IF 1 <= n THEN n - 1 + 1 ELSE 0) = n /\ n - 1 + 1 = n /\ \A i \in 1 .. n : 1 + i - 1 = i
    BY <1>1
  <2>5. QED BY <2>2, <2>3, <2>4
<1>3. /\ back \in Seq(S) /\ DOMAIN back = 1 .. l - n
      /\ \A i \in 1 .. l - n : back[i] = s[n + i]
  <2>1. \A i \in n + 1 .. l : s[i] \in S
    BY <1>1
  <2>2. /\ back \in Seq(S) /\ Len(back) = IF n + 1 <= l THEN l - (n + 1) + 1 ELSE 0
        /\ \A i \in 1 .. l - (n + 1) + 1 : back[i] = s[n + 1 + i - 1]
    BY <1>1, <2>1, SubSeqProperties
  <2>3. DOMAIN back = 1 .. Len(back)
    BY <2>2, LenProperties
  <2> HIDE DEF back, l
  <2>4. /\ (IF n + 1 <= l THEN l - (n + 1) + 1 ELSE 0) = l - n /\ l - (n + 1) + 1 = l - n
        /\ \A i \in 1 .. l - n : n + 1 + i - 1 = n + i
    BY <1>1
  <2>5. QED BY <2>2, <2>3, <2>4
<1>4. front # <<>>
  BY <1>1, <1>2, EmptySeq
<1> HIDE DEF front, back, l
<1>5. /\ \A i \in 1 .. n : i \in 1 .. l
      /\ \A i \in 1 .. l - n : n + i \in 1 .. l /\ n + i \notin 1 .. n
      /\ \A i \in 1 .. l : i \in 1 .. n \/ (i - n \in 1 .. l - n /\ n + (i - n) = i)
      /\ \A i, j \in 1 .. l - n : n + i = n + j => i = j
  BY <1>1
<1>6. Elems(s) = Elems(front) \cup Elems(back)
  <2>1. Elems(front) \cup Elems(back) \subseteq Elems(s)
    <3>1. Elems(front) \subseteq Elems(s)
      BY <1>1, <1>2, <1>5 DEF Elems
    <3>2. ASSUME NEW i \in 1 .. l - n PROVE back[i] \in Elems(s)
      <4>1. n + i \in 1 .. l /\ back[i] = s[n + i]
        BY <1>3, <1>5
      <4>2. QED BY <1>1, <4>1 DEF Elems
    <3>3. Elems(back) \subseteq Elems(s)
      BY <1>3, <3>2 DEF Elems
    <3>4. QED BY <3>1, <3>3
  <2>2. ASSUME NEW i \in 1 .. l PROVE s[i] \in Elems(front) \cup Elems(back)
    <3>1. CASE i \in 1 .. n
      BY <1>2, <3>1 DEF Elems
    <3>2. CASE i - n \in 1 .. l - n /\ n + (i - n) = i
      <4>1. back[i - n] = s[i]
        BY <1>3, <3>2
      <4>2. QED BY <1>3, <3>2, <4>1 DEF Elems
    <3>3. QED BY <1>5, <3>1, <3>2
  <2>3. Elems(s) \subseteq Elems(front) \cup Elems(back)
    BY <1>1, <2>2 DEF Elems
  <2>4. QED BY <2>1, <2>3
<1>7. ASSUME OnceEach(s)
      PROVE  OnceEach(front) /\ OnceEach(back) /\ Elems(front) \cap Elems(back) = {}
  <2>1. OnceEach(front)
    BY <1>1, <1>2, <1>5, <1>7 DEF OnceEach
  <2>2. OnceEach(back)
    <3> SUFFICES ASSUME NEW i \in 1 .. l - n, NEW j \in 1 .. l - n, back[i] = back[j] PROVE i = j
      BY <1>3 DEF OnceEach
    <3>1. n + i \in 1 .. l /\ n + j \in 1 .. l /\ s[n + i] = s[n + j]
      BY <1>3, <1>5
    <3>2. n + i = n + j
      BY <1>1, <1>7, <3>1 DEF OnceEach
    <3>3. QED BY <1>5, <3>2
  <2>3. ASSUME NEW i \in 1 .. n, NEW j \in 1 .. l - n, front[i] = back[j] PROVE FALSE
    <3>1. s[i] = s[n + j] /\ i \in 1 .. l /\ n + j \in 1 .. l /\ n + j \notin 1 .. n
      BY <1>2, <1>3, <1>5, <2>3
    <3>2. i = n + j
      BY <1>1, <1>7, <3>1 DEF OnceEach
    <3>3. QED BY <3>1, <3>2
  <2>4. QED BY <1>2, <1>3, <2>1, <2>2, <2>3 DEF Elems
<1>8. QED BY <1>2, <1>3, <1>4, <1>6, <1>7 DEF front, back

(***************************************************************************)
(* The inductive invariant.                                                *)
(***************************************************************************)
LEMMA FileInitInv == FileInit => FileInv
<1> SUFFICES ASSUME FileInit PROVE FileInv
  OBVIOUS
<1>1. <<>> \in Seq(Requests) /\ Elems(<<>>) = {} /\ OnceEach(<<>>)
  <2>1. <<>> \in Seq(Requests) /\ DOMAIN <<>> = {}
    BY EmptySeq, LenProperties
  <2>2. QED BY <2>1 DEF Elems, OnceEach
<1>2. batch = [t \in Threads |-> <<>>] /\ events = <<>> /\ \A t \in Threads : batch[t] = <<>>
  BY DEF FileInit
<1>3. FileTypeOK
  <2>1. batch \in [Threads -> Seq(Requests)] /\ events \in Seq(Requests)
    BY <1>1, <1>2
  <2>2. /\ handler = [t \in Threads |-> "test"]
        /\ isStop = FALSE /\ used = {} /\ held = {} /\ refused = {} /\ kernel = {} /\ submits = 0
    BY DEF FileInit
  <2>3. submits \in 0 .. MaxSubmits
    BY <2>2, FilePoolAssumption
  <2>4. QED BY <1>2, <2>1, <2>2, <2>3 DEF FileTypeOK
<1>4. Somewhere
  BY <1>1, <1>2 DEF FileInit, Somewhere
<1>5. Apart
  BY <1>1, <1>2 DEF FileInit, Apart, Nowhere
<1>6. QED BY <1>3, <1>4, <1>5 DEF FileInv

LEMMA PlacesSame ==
  ASSUME FileInv, UNCHANGED <<batch, requestVars>>
  PROVE  Somewhere' /\ Apart'
<1>1. UNCHANGED <<batch, used, held, refused, kernel, events>>
  BY DEF requestVars
<1>2. Somewhere'
  BY <1>1 DEF FileInv, Somewhere
<1>3. Apart'
  BY <1>1 DEF FileInv, Apart, Nowhere
<1>4. QED BY <1>2, <1>3

LEMMA TypeSame ==
  ASSUME FileInv, UNCHANGED <<isStop, handlerVars, requestVars>>
  PROVE  FileInv'
<1>1. UNCHANGED <<isStop, handler, batch, used, held, refused, kernel, events, submits>>
  BY DEF handlerVars, requestVars
<1>2. FileTypeOK'
  BY <1>1 DEF FileInv, FileTypeOK
<1>3. QED BY <1>2, PlacesSame DEF FileInv, handlerVars

LEMMA ClientStep ==
  ASSUME FileInv, NEW r \in Requests,
         GetRequest(r) \/ Submit(r) \/ GiveBack(r) \/ ReadRefused(r)
  PROVE  FileInv'
<1>1. UNCHANGED <<isStop, handler, batch, events, kernel>> \/ UNCHANGED <<isStop, handler, batch, events>>
  BY DEF GetRequest, Submit, GiveBack, ReadRefused, handlerVars
<1>2. /\ UNCHANGED <<isStop, handler, batch, events>>
      /\ \A s : Nowhere(s)' <=> Nowhere(s)
  BY <1>1 DEF Nowhere
<1>3. FileTypeOK'
  BY <1>2, FilePoolAssumption
     DEF FileInv, FileTypeOK, GetRequest, Submit, GiveBack, ReadRefused
<1>4. Somewhere' /\ Apart'
  <2> USE DEF FileInv
  <2>1. CASE GetRequest(r)
    <3>1. /\ used' = used \cup {r} /\ held' = held \cup {r} /\ UNCHANGED <<refused, kernel>>
          /\ r \notin used
      BY <2>1 DEF GetRequest
    <3>2. Nowhere(r) /\ r \notin held /\ r \notin refused /\ r \notin kernel
      BY <3>1 DEF Somewhere, Nowhere
    <3>3. Somewhere'
      BY <1>2, <3>1 DEF Somewhere
    <3>4. Apart'
      BY <1>2, <3>1, <3>2 DEF Apart
    <3>5. QED BY <3>3, <3>4
  <2>2. CASE Submit(r)
    <3>1. /\ held' = held \ {r} /\ kernel' = kernel \cup {r} /\ UNCHANGED <<used, refused>>
          /\ r \in held
      BY <2>2 DEF Submit
    <3>2. Somewhere'
      BY <1>2, <3>1 DEF Somewhere
    <3>3. Apart'
      BY <1>2, <3>1 DEF Apart
    <3>4. QED BY <3>2, <3>3
  <2>3. CASE GiveBack(r)
    <3>1. /\ held' = held \ {r} /\ used' = used \ {r} /\ UNCHANGED <<kernel, refused>>
          /\ r \in held
      BY <2>3 DEF GiveBack
    <3>2. Nowhere(r) /\ r \notin refused /\ r \notin kernel
      BY <3>1 DEF Apart
    <3>3. Somewhere'
      BY <1>2, <3>1, <3>2 DEF Somewhere, Nowhere
    <3>4. Apart'
      BY <1>2, <3>1 DEF Apart
    <3>5. QED BY <3>3, <3>4
  <2>4. CASE ReadRefused(r)
    <3>1. /\ held' = held \ {r} /\ refused' = refused \cup {r} /\ UNCHANGED <<used, kernel>>
          /\ r \in held
      BY <2>4 DEF ReadRefused
    <3>2. Somewhere'
      BY <1>2, <3>1 DEF Somewhere
    <3>3. Apart'
      BY <1>2, <3>1 DEF Apart
    <3>4. QED BY <3>2, <3>3
  <2>5. QED BY <2>1, <2>2, <2>3, <2>4
<1>5. QED BY <1>3, <1>4 DEF FileInv

LEMMA CompleteStep ==
  ASSUME FileInv, NEW r \in Requests, Complete(r)
  PROVE  FileInv'
<1> USE DEF FileInv
<1>1. /\ r \in kernel /\ kernel' = kernel \ {r} /\ events' = Append(events, r)
      /\ UNCHANGED <<isStop, handler, batch, used, held, refused, submits>>
  BY DEF Complete, handlerVars
<1>2. events \in Seq(Requests)
  BY DEF FileTypeOK
<1>3. r \notin Elems(events) /\ r \notin held /\ r \notin refused
      /\ \A t \in Threads : r \notin Elems(batch[t])
  BY <1>1 DEF Apart, Nowhere
<1>4. /\ events' \in Seq(Requests) /\ Elems(events') = Elems(events) \cup {r}
      /\ OnceEach(events')
  BY <1>1, <1>2, <1>3, AppendElems DEF Apart
<1>5. FileTypeOK'
  BY <1>1, <1>4 DEF FileTypeOK
<1>6. Somewhere'
  BY <1>1, <1>4 DEF Somewhere
<1>7. Apart'
  BY <1>1, <1>3, <1>4 DEF Apart, Nowhere
<1>8. QED BY <1>5, <1>6, <1>7

LEMMA PollStep ==
  ASSUME FileInv, NEW t \in Threads, Poll(t)
  PROVE  FileInv'
<1> USE DEF FileInv
<1> DEFINE n == IF Len(events) < MaxEvents THEN Len(events) ELSE MaxEvents
           front == SubSeq(events, 1, n)
           back == SubSeq(events, n + 1, Len(events))
<1>1. /\ handler[t] = "poll" /\ handler' = [handler EXCEPT ![t] = "callback"]
      /\ events # <<>> /\ batch' = [batch EXCEPT ![t] = front] /\ events' = back
      /\ UNCHANGED <<isStop, used, held, refused, kernel, submits>>
  BY DEF Poll, HandlerGoes
<1>2. events \in Seq(Requests) /\ batch \in [Threads -> Seq(Requests)] /\ batch[t] = <<>>
  BY <1>1 DEF FileTypeOK
<1>3. n \in 1 .. Len(events)
  <2>1. Len(events) \in Nat \ {0}
    BY <1>1, <1>2, EmptySeq
  <2>2. QED BY <2>1, FilePoolAssumption
<1> HIDE DEF n
<1>4. /\ front \in Seq(Requests) /\ back \in Seq(Requests) /\ front # <<>>
      /\ Elems(events) = Elems(front) \cup Elems(back)
      /\ OnceEach(front) /\ OnceEach(back) /\ Elems(front) \cap Elems(back) = {}
  BY <1>2, <1>3, SplitElems DEF Apart
<1> HIDE DEF front, back
<1>5. FileTypeOK'
  BY <1>1, <1>2, <1>4 DEF FileTypeOK
<1>6. Elems(batch[t]) = {} /\ Elems(batch'[t]) = Elems(front)
      /\ \A v \in Threads \ {t} : batch'[v] = batch[v]
  BY <1>1, <1>2, ElemsFacts
<1>7. Somewhere'
  <2>1. UNION {Elems(batch'[v]) : v \in Threads} = Elems(front) \cup UNION {Elems(batch[v]) : v \in Threads}
    <3>1. \A x : (\E v \in Threads : x \in Elems(batch'[v]))
                   <=> x \in Elems(front) \/ \E v \in Threads : x \in Elems(batch[v])
      BY <1>6
    <3>2. QED BY <3>1
  <2>2. QED BY <1>1, <1>4, <2>1 DEF Somewhere
<1>8. Apart'
  <2>1. \A x : Nowhere(x) => Nowhere(x)'
    BY <1>1, <1>4, <1>6 DEF Nowhere
  <2>2. \A v \in Threads : OnceEach(batch'[v]) /\ Elems(events') \cap Elems(batch'[v]) = {}
    <3> TAKE v \in Threads
    <3>1. CASE v = t
      BY <1>1, <1>2, <1>4, <1>6, <3>1
    <3>2. CASE v # t
      BY <1>1, <1>4, <1>6, <3>2 DEF Apart
    <3>3. QED BY <3>1, <3>2
  <2>3. \A v \in Threads : \A w \in Threads \ {v} : Elems(batch'[v]) \cap Elems(batch'[w]) = {}
    BY <1>4, <1>6 DEF Apart
  <2>4. QED BY <1>1, <1>4, <2>1, <2>2, <2>3 DEF Apart
<1>9. QED BY <1>5, <1>7, <1>8

LEMMA ReleaseStep ==
  ASSUME FileInv, NEW t \in Threads, Release(t)
  PROVE  FileInv'
<1> USE DEF FileInv
<1> DEFINE r == Head(batch[t])  rest == Tail(batch[t])
<1>1. /\ handler[t] = "release"
      /\ handler' = [handler EXCEPT ![t] = IF Len(batch[t]) = 1 THEN "test" ELSE "callback"]
      /\ used' = used \ {r} /\ batch' = [batch EXCEPT ![t] = rest]
      /\ UNCHANGED <<isStop, held, refused, kernel, events, submits>>
  BY DEF Release, HandlerGoes
<1>2. batch \in [Threads -> Seq(Requests)] /\ batch[t] \in Seq(Requests) /\ batch[t] # <<>>
  BY <1>1 DEF FileTypeOK
<1>3. /\ r \in Elems(batch[t]) /\ rest \in Seq(Requests) /\ Len(rest) = Len(batch[t]) - 1
      /\ OnceEach(rest) /\ Elems(rest) = Elems(batch[t]) \ {r}
  BY <1>2, TailElems DEF Apart
<1> HIDE DEF r, rest
<1>4. rest = <<>> <=> Len(batch[t]) = 1
  <2>1. Len(rest) = 0 <=> rest = <<>>
    BY <1>3, EmptySeq
  <2>2. Len(batch[t]) \in Nat
    BY <1>2, LenProperties
  <2>3. QED BY <1>3, <2>1, <2>2
<1>5. FileTypeOK'
  BY <1>1, <1>2, <1>3, <1>4 DEF FileTypeOK
<1>6. batch'[t] = rest /\ \A v \in Threads \ {t} : batch'[v] = batch[v]
  BY <1>1, <1>2
<1>7. /\ r \notin held /\ r \notin refused /\ r \notin kernel /\ r \notin Elems(events)
      /\ \A v \in Threads \ {t} : r \notin Elems(batch[v])
  BY <1>3 DEF Apart, Nowhere
<1>8. Somewhere'
  <2>1. \A x : (\E v \in Threads : x \in Elems(batch'[v]))
                 <=> x # r /\ \E v \in Threads : x \in Elems(batch[v])
    BY <1>3, <1>6, <1>7
  <2>2. /\ \A x : x \in UNION {Elems(batch'[v]) : v \in Threads} <=> \E v \in Threads : x \in Elems(batch'[v])
        /\ \A x : x \in UNION {Elems(batch[v]) : v \in Threads} <=> \E v \in Threads : x \in Elems(batch[v])
    BY UnionElems
  <2>3. \A x : x \in UNION {Elems(batch'[v]) : v \in Threads}
                 <=> x # r /\ x \in UNION {Elems(batch[v]) : v \in Threads}
    BY <2>1, <2>2
  <2> DEFINE now == UNION {Elems(batch[v]) : v \in Threads}
             then == UNION {Elems(batch'[v]) : v \in Threads}
  <2>4. \A x : x \in then <=> x # r /\ x \in now
    BY <2>3
  <2>5. used = held \cup refused \cup kernel \cup Elems(events) \cup now
    BY DEF Somewhere
  <2>6. Somewhere' <=> used' = held' \cup refused' \cup kernel' \cup Elems(events') \cup then
    BY DEF Somewhere
  <2> HIDE DEF now, then
  <2>7. used' = held \cup refused \cup kernel \cup Elems(events) \cup then
    BY <1>1, <1>7, <2>4, <2>5
  <2>8. QED BY <1>1, <2>6, <2>7
<1>9. Apart'
  <2>1. \A v \in Threads : Elems(batch'[v]) \subseteq Elems(batch[v]) /\ OnceEach(batch'[v])
    BY <1>3, <1>6 DEF Apart
  <2>2. \A x : Nowhere(x) => Nowhere(x)'
    BY <1>1, <2>1 DEF Nowhere
  <2>3. QED BY <1>1, <2>1, <2>2 DEF Apart
<1>10. QED BY <1>5, <1>8, <1>9

LEMMA FileNextInv == FileInv /\ [FileNext]_fileVars => FileInv'
<1> SUFFICES ASSUME FileInv, [FileNext]_fileVars PROVE FileInv'
  OBVIOUS
<1>1. CASE \/ PoolOnly(Owner) \/ UNCHANGED fileVars
           \/ \E k \in Tasks : StartNext(k) \/ PoolOnly(Add(k))
           \/ \E t \in Threads : PoolOnly(WorkerStep(t))
  BY <1>1, TypeSame DEF PoolOnly, StartNext, fileVars
<1>2. CASE FileStop
  <2>1. isStop' = TRUE /\ UNCHANGED <<handler, batch, used, held, refused, kernel, events, submits>>
    BY <1>2 DEF FileStop, handlerVars, requestVars
  <2>2. FileTypeOK'
    BY <2>1 DEF FileInv, FileTypeOK
  <2>3. QED BY <1>2, <2>2, PlacesSame DEF FileInv, FileStop, handlerVars
<1>3. ASSUME NEW t \in Threads, TestStop(t) \/ PollTimeOut(t) \/ PollError(t) \/ Callback(t) \/ Return(t)
      PROVE  FileInv'
  <2>1. /\ UNCHANGED <<isStop, batch, requestVars>>
        /\ \/ handler[t] \in {"test", "poll", "return"}
                /\ \E to \in {"return", "poll", "test"} : handler' = [handler EXCEPT ![t] = to]
           \/ handler[t] = "callback" /\ handler' = [handler EXCEPT ![t] = "release"]
    BY <1>3 DEF TestStop, PollTimeOut, PollError, Callback, Return, HandlerGoes
  <2>2. UNCHANGED <<isStop, batch, used, held, refused, kernel, events, submits>>
    BY <2>1 DEF requestVars
  <2>3. FileTypeOK'
    BY <2>1, <2>2 DEF FileInv, FileTypeOK
  <2>4. QED BY <2>1, <2>3, PlacesSame DEF FileInv
<1>4. ASSUME NEW t \in Threads, Poll(t) \/ Release(t) PROVE FileInv'
  BY <1>4, PollStep, ReleaseStep
<1>5. ASSUME NEW r \in Requests,
             GetRequest(r) \/ Submit(r) \/ GiveBack(r) \/ ReadRefused(r) \/ Complete(r)
      PROVE  FileInv'
  BY <1>5, ClientStep, CompleteStep
<1>6. QED BY <1>1, <1>2, <1>3, <1>4, <1>5 DEF FileNext, Thread, Handle

(***************************************************************************)
(* The theorems.                                                           *)
(***************************************************************************)
(* The places of one request in a sequence.                                *)
SpotsOf(s, r, x) == {<<x, i>> : i \in {j \in DOMAIN s : s[j] = r}}

LEMMA SpotsIn ==
  ASSUME NEW s, NEW r, NEW x
  PROVE  /\ r \notin Elems(s) => SpotsOf(s, r, x) = {}
         /\ r \in Elems(s) /\ OnceEach(s) => \E spot : SpotsOf(s, r, x) = {spot}
<1> DEFINE spots == SpotsOf(s, r, x)
<1>1. r \notin Elems(s) => spots = {}
  BY DEF Elems, SpotsOf
<1>2. ASSUME r \in Elems(s), OnceEach(s) PROVE \E spot : spots = {spot}
  <2>1. PICK i \in DOMAIN s : s[i] = r
    BY <1>2 DEF Elems
  <2>2. {j \in DOMAIN s : s[j] = r} = {i}
    BY <1>2, <2>1 DEF OnceEach
  <2>3. spots = {<<x, i>>}
    BY <2>2 DEF SpotsOf
  <2>4. QED BY <2>3
<1>3. QED BY <1>1, <1>2

LEMMA OnePlace == FileInv => RequestInOnePlace
<1> SUFFICES ASSUME FileInv, NEW r \in Requests
             PROVE  Cardinality(PlacesOf(r)) = IF r \in used THEN 1 ELSE 0
  BY DEF RequestInOnePlace
<1> DEFINE H == {<<"held", 0>> : x \in held \cap {r}}
           F == {<<"refused", 0>> : x \in refused \cap {r}}
           C == {<<"kernel", 0>> : x \in kernel \cap {r}}
           E == {<<"events", i>> : i \in {j \in DOMAIN events : events[j] = r}}
           B(t) == {<<t, i>> : i \in {j \in DOMAIN batch[t] : batch[t][j] = r}}
           U == UNION {B(t) : t \in Threads}
<1>1. PlacesOf(r) = H \cup F \cup C \cup E \cup U
  BY DEF PlacesOf
<1>2. /\ H = IF r \in held THEN {<<"held", 0>>} ELSE {}
      /\ F = IF r \in refused THEN {<<"refused", 0>>} ELSE {}
      /\ C = IF r \in kernel THEN {<<"kernel", 0>>} ELSE {}
  OBVIOUS
<1>3. /\ r \notin Elems(events) => E = {}
      /\ r \in Elems(events) => \E spot : E = {spot}
  <2>1. E = SpotsOf(events, r, "events") /\ OnceEach(events)
    BY DEF SpotsOf, FileInv, Apart
  <2>2. QED BY <2>1, SpotsIn
<1>4. ASSUME NEW t \in Threads
      PROVE  /\ r \notin Elems(batch[t]) => B(t) = {}
             /\ r \in Elems(batch[t]) => \E spot : B(t) = {spot}
  <2>1. B(t) = SpotsOf(batch[t], r, t) /\ OnceEach(batch[t])
    BY DEF SpotsOf, FileInv, Apart
  <2>2. QED BY <2>1, SpotsIn
<1> HIDE DEF H, F, C, E, B
<1>5. (\A t \in Threads : r \notin Elems(batch[t])) => U = {}
  BY <1>4
<1>6. ASSUME NEW t \in Threads, r \in Elems(batch[t]) PROVE \E spot : U = {spot}
  <2>1. \A v \in Threads \ {t} : r \notin Elems(batch[v])
    BY <1>6 DEF FileInv, Apart
  <2>2. \A v \in Threads \ {t} : B(v) = {}
    BY <1>4, <2>1
  <2>3. U = B(t)
    BY <2>2
  <2>4. QED BY <1>4, <1>6, <2>3
<1> HIDE DEF U
<1>7. CASE r \notin used
  <2>1. /\ r \notin held /\ r \notin refused /\ r \notin kernel /\ r \notin Elems(events)
        /\ \A t \in Threads : r \notin Elems(batch[t])
    BY <1>7, UnionElems DEF FileInv, Somewhere
  <2>2. PlacesOf(r) = {}
    BY <1>1, <1>2, <1>3, <1>5, <2>1
  <2>3. QED BY <1>7, <2>2, FS_EmptySet
<1>8. CASE r \in used
  <2>1. \/ r \in held \/ r \in refused \/ r \in kernel \/ r \in Elems(events)
        \/ \E t \in Threads : r \in Elems(batch[t])
    BY <1>8, UnionElems DEF FileInv, Somewhere
  <2>2. \E spot : PlacesOf(r) = {spot}
    <3>1. CASE r \in held
      <4>1. r \notin refused /\ r \notin kernel /\ Nowhere(r)
        BY <3>1 DEF FileInv, Apart
      <4>2. PlacesOf(r) = {<<"held", 0>>}
        BY <1>1, <1>2, <1>3, <1>5, <3>1, <4>1 DEF Nowhere
      <4>3. QED BY <4>2
    <3>2. CASE r \in refused
      <4>1. r \notin held /\ r \notin kernel /\ Nowhere(r)
        BY <3>2 DEF FileInv, Apart
      <4>2. PlacesOf(r) = {<<"refused", 0>>}
        BY <1>1, <1>2, <1>3, <1>5, <3>2, <4>1 DEF Nowhere
      <4>3. QED BY <4>2
    <3>3. CASE r \in kernel
      <4>1. r \notin held /\ r \notin refused /\ Nowhere(r)
        BY <3>3 DEF FileInv, Apart
      <4>2. PlacesOf(r) = {<<"kernel", 0>>}
        BY <1>1, <1>2, <1>3, <1>5, <3>3, <4>1 DEF Nowhere
      <4>3. QED BY <4>2
    <3>4. CASE r \in Elems(events)
      <4>1. /\ r \notin held /\ r \notin refused /\ r \notin kernel
            /\ \A t \in Threads : r \notin Elems(batch[t])
        BY <3>4 DEF FileInv, Apart, Nowhere
      <4>2. PlacesOf(r) = E
        BY <1>1, <1>2, <1>5, <4>1
      <4>3. QED BY <1>3, <3>4, <4>2
    <3>5. ASSUME NEW t \in Threads, r \in Elems(batch[t]) PROVE \E spot : PlacesOf(r) = {spot}
      <4>1. r \notin held /\ r \notin refused /\ r \notin kernel /\ r \notin Elems(events)
        BY <3>5 DEF FileInv, Apart, Nowhere
      <4>2. PlacesOf(r) = U
        BY <1>1, <1>2, <1>3, <4>1
      <4>3. QED BY <1>6, <3>5, <4>2
    <3>6. QED BY <2>1, <3>1, <3>2, <3>3, <3>4, <3>5
  <2>3. QED BY <1>8, <2>2, FS_Singleton
<1>9. QED BY <1>7, <1>8

(* The variables of the file pool keep their types, and a handler that     *)
(* calls back or releases has a finished request to do it for.             *)
THEOREM FileTypeCorrect == FileSpec => []FileTypeOK
<1>1. FileInv => FileTypeOK
  BY DEF FileInv
<1>2. QED BY <1>1, FileInitInv, FileNextInv, PTL DEF FileSpec

(* A request that is in use is in exactly one place, one that is in the    *)
(* pool in none, for any number of requests, handlers and events: nobody   *)
(* calls back for a request that is somebody else's already.               *)
THEOREM RequestsInOnePlace == FileSpec => []RequestInOnePlace
BY OnePlace, FileInitInv, FileNextInv, PTL DEF FileSpec

(* The file pool uses the thread pool as the thread pool allows: whatever  *)
(* it does is a step of the thread pool or none.                           *)
LEMMA FileStepIsPoolStep == [FileNext]_fileVars => [Next]_vars
<1> SUFFICES ASSUME [FileNext]_fileVars PROVE Next \/ UNCHANGED vars
  OBVIOUS
<1>1. CASE PoolOnly(Owner) \/ FileStop \/ \E k \in Tasks : StartNext(k) \/ PoolOnly(Add(k))
  BY <1>1 DEF PoolOnly, FileStop, StartNext, Next
<1>2. ASSUME NEW t \in Threads, PoolOnly(WorkerStep(t)) \/ Return(t) PROVE Next
  BY <1>2 DEF PoolOnly, WorkerStep, Return, DoTask, Next
<1>3. ASSUME NEW t \in Threads,
             \/ TestStop(t) \/ Poll(t) \/ PollTimeOut(t) \/ PollError(t)
             \/ Callback(t) \/ Release(t)
      PROVE  UNCHANGED vars
  BY <1>3 DEF TestStop, Poll, PollTimeOut, PollError, Callback, Release
<1>4. ASSUME NEW r \in Requests,
             GetRequest(r) \/ Submit(r) \/ GiveBack(r) \/ ReadRefused(r) \/ Complete(r)
      PROVE  UNCHANGED vars
  BY <1>4 DEF GetRequest, Submit, GiveBack, ReadRefused, Complete
<1>5. CASE UNCHANGED fileVars
  BY <1>5 DEF fileVars
<1>6. QED BY <1>1, <1>2, <1>3, <1>4, <1>5 DEF FileNext, Thread, Handle

(* Whatever start(), the handlers and stop() do to the thread pool is what *)
(* some caller of addTask, the threads and stop() of CThreadPool may do:   *)
(* the file pool is one of its callers, and its theorems hold here.        *)
THEOREM FilePoolUsesThreadPool == FileSpec => Spec
<1>1. FileInit => Init
  BY DEF FileInit
<1>2. QED BY <1>1, FileStepIsPoolStep, PTL DEF FileSpec, Spec

(* So the handlers' thread pool keeps what every thread pool keeps: no     *)
(* handler is run by two threads or lost, the semaphores count the queues, *)
(* and once stop() has returned no thread polls any more.                  *)
THEOREM HandlersAreKept ==
  FileSpec => /\ []TaskHeldOnce
              /\ []SemCountsQueue
              /\ []StoppedIsQuiet
BY FilePoolUsesThreadPool, TasksHeldOnce, SemAlwaysCountsQueue, StoppedStaysQuiet, PTL

=============================================================================
