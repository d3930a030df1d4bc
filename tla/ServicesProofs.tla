---------------------------- MODULE ServicesProofs ----------------------------
(***************************************************************************)
(* Proofs about Services, for any services, dependencies, threads and      *)
(* requests.  Nothing says that the dependencies have no cycles: in a      *)
(* cycle the calls of resolve nest for ever and make nothing.              *)
(***************************************************************************)
EXTENDS Services, TLAPS, FiniteSetTheorems, SequenceTheorems

Instances == [type : Types, of : Scopes, n : Nat]
Frames == [type : Types, prov : Scopes, at : {"look", "lock", "make"},
           todo : Seq(Types), keep : BOOLEAN]

Typed ==
    /\ services \in [Scopes -> [Types -> Instances \cup {NoInstance}]]
    /\ lock \in [Scopes -> [owner : Threads \cup {Nobody}, depth : Int]]
    /\ exits \in [Scopes -> Seq(Instances)]
    /\ phase \in [Scopes -> {"new", "opening", "open", "closing", "closed"}]
    /\ eager \in [Scopes -> SUBSET Types]
    /\ frames \in [Threads -> Seq(Frames)]
    /\ results \in [Threads -> SUBSET [asked : Types, got : Instances]]

-----------------------------------------------------------------------------
\* The dependencies a call has asked for, the last of which it may wait for.
Asked(f) == Len(Deps[f.type]) - Len(f.todo)
Caller(th, s, i) == IF i = 1 THEN ScopeOf[th] ELSE s[i - 1].prov

\* The calls of a thread: each one but the last makes a service and waits for the
\* dependency above it, in the provider where that one is at home.
FrameFits(th, s, i) ==
    /\ s[i].prov \in {ScopeOf[th], App}
    /\ \/ s[i].prov = Caller(th, s, i)
       \/ s[i].prov = App /\ ~Registered(s[i].type, Caller(th, s, i))
    /\ ~s[i].keep => i = 1 /\ s[i].at = "make"
    /\ s[i].keep /\ s[i].at # "look" => Registered(s[i].type, s[i].prov)
    /\ s[i].at = "make" =>
          /\ Len(s[i].todo) <= Len(Deps[s[i].type])
          /\ \A k \in 1 .. Len(s[i].todo) : s[i].todo[k] = Deps[s[i].type][Asked(s[i]) + k]
    /\ i < Len(s) =>
          s[i].at = "make" /\ Asked(s[i]) > 0 /\ s[i + 1].type = Deps[s[i].type][Asked(s[i])]

Shape == \A th \in Threads : \A i \in 1 .. Len(frames[th]) : FrameFits(th, frames[th], i)

Made(type, p) == services[Home(type, p)][type] # NoInstance

\* What a call has asked for and does not wait for is made, where it is at home.
HasDeps(s, i) ==
    s[i].at = "make" => \A m \in 1 .. Asked(s[i]) :
        (m = Asked(s[i]) /\ i < Len(s)) \/ Made(Deps[s[i].type][m], s[i].prov)

DepsMade ==
    /\ \A th \in Threads : \A i \in 1 .. Len(frames[th]) : HasDeps(frames[th], i)
    /\ \A p \in Scopes, type \in Types :
          services[p][type] # NoInstance => Registered(type, p)

-----------------------------------------------------------------------------
\* Scopes open and close inside one another, and nobody works in a closed one.
Nested ==
    /\ \A th \in Threads : frames[th] # <<>> => phase[ScopeOf[th]] \in {"opening", "open"}
    /\ \A th, u \in Threads :
          phase[ScopeOf[th]] = "opening" /\ ScopeOf[th] = ScopeOf[u]
          /\ frames[th] # <<>> /\ frames[u] # <<>> => th = u
    /\ \A q \in Requests : phase[q] \in {"opening", "open", "closing"} => phase[App] = "open"

\* What is published has its exit on the stack, until the scope closes.
Published ==
    /\ \A p \in Scopes : phase[p] \in {"new", "closed"} => exits[p] = <<>>
    /\ \A p \in Scopes, type \in Types :
          /\ phase[p] = "new" => services[p][type] = NoInstance
          /\ phase[p] \in {"opening", "open"} /\ services[p][type] # NoInstance =>
                \E k \in 1 .. Len(exits[p]) : exits[p][k].type = type
    /\ \A p \in Scopes : \A k \in 1 .. Len(exits[p]) :
          services[p][exits[p][k].type] # NoInstance

ScopeInv == Typed /\ Shape /\ DepsMade /\ Nested /\ Published

-----------------------------------------------------------------------------
\* The calls that hold the lock of a provider.
Holds(f) == f.at = "make" /\ f.keep
Held(th, p) == {i \in 1 .. Len(frames[th]) : Holds(frames[th][i]) /\ frames[th][i].prov = p}

Locked ==
    \A th \in Threads, p \in Scopes :
        /\ lock[p].depth >= 0 /\ (Held(th, p) # {} => lock[p].owner = th)
        /\ lock[p].owner = th => Cardinality(Held(th, p)) <= lock[p].depth

\* What a call makes is not published; and a second call for the same service,
\* which a cycle of dependencies leads to, is never further than the first.
Unmade ==
    \A th \in Threads : \A i \in 1 .. Len(frames[th]) :
        LET f == frames[th][i] IN Holds(f) => services[f.prov][f.type] = NoInstance

Behind ==
    \A th \in Threads : \A i, j \in 1 .. Len(frames[th]) :
        LET f == frames[th][i]
            g == frames[th][j]
        IN  i < j /\ Holds(f) /\ Holds(g) /\ f.type = g.type /\ f.prov = g.prov =>
               Len(g.todo) > Len(f.todo) \/ (Len(g.todo) = Len(f.todo) /\ j < Len(frames[th]))

MadeOnce ==
    /\ \A p \in Scopes : \A k \in 1 .. Len(exits[p]) : exits[p][k].n = 0
    /\ \A th \in Threads : \A r \in results[th] :
          services[Home(r.asked, ScopeOf[th])][r.asked] = r.got

OnceInv == Locked /\ Unmade /\ Behind /\ MadeOnce

-----------------------------------------------------------------------------
(***************************************************************************)
(* Stacks.                                                                 *)
(***************************************************************************)
LEMMA FrontAndLast ==
  ASSUME NEW S, NEW s \in Seq(S), s # <<>>
  PROVE  /\ Len(s) \in Nat /\ Len(s) > 0
         /\ Front(s) \in Seq(S) /\ Len(Front(s)) = Len(s) - 1
         /\ \A i \in 1 .. Len(s) - 1 : Front(s)[i] = s[i]
         /\ Last(s) \in S /\ Last(s) = s[Len(s)]
<1>1. Len(s) \in Nat /\ Len(s) > 0 /\ \A i \in 1 .. Len(s) : s[i] \in S
  BY EmptySeq, ElementOfSeq
<1>2. /\ SubSeq(s, 1, Len(s) - 1) \in Seq(S)
      /\ Len(SubSeq(s, 1, Len(s) - 1)) = Len(s) - 1
      /\ \A i \in 1 .. Len(s) - 1 : SubSeq(s, 1, Len(s) - 1)[i] = s[i]
  <2> DEFINE n == Len(s) - 1
  <2>1. n \in Int /\ 1 \in Int /\ \A i \in 1 .. n : s[i] \in S
    BY <1>1
  <2>2. /\ SubSeq(s, 1, n) \in Seq(S)
        /\ Len(SubSeq(s, 1, n)) = IF 1 <= n THEN n - 1 + 1 ELSE 0
        /\ \A i \in 1 .. n - 1 + 1 : SubSeq(s, 1, n)[i] = s[1 + i - 1]
    <3> HIDE DEF n
    <3> QED  BY <2>1, SubSeqProperties
  <2>3. n \in Nat /\ n = Len(s) - 1
    BY <1>1
  <2> HIDE DEF n
  <2>4. \A i \in 1 .. n : i \in 1 .. n - 1 + 1 /\ s[1 + i - 1] = s[i]
    BY <2>3
  <2>5. (IF 1 <= n THEN n - 1 + 1 ELSE 0) = n
    BY <2>3
  <2>6. /\ SubSeq(s, 1, n) \in Seq(S) /\ Len(SubSeq(s, 1, n)) = n
        /\ \A i \in 1 .. n : SubSeq(s, 1, n)[i] = s[i]
    BY <2>2, <2>4, <2>5
  <2>7. QED
    BY <2>3, <2>6
<1>3. QED
  BY <1>1, <1>2 DEF Front, Last

LEMMA TopReplaced ==
  ASSUME NEW S, NEW s \in Seq(S), s # <<>>, NEW g \in S
  PROVE  /\ Append(Front(s), g) \in Seq(S) /\ Len(Append(Front(s), g)) = Len(s)
         /\ \A i \in 1 .. Len(s) - 1 : Append(Front(s), g)[i] = s[i]
         /\ Append(Front(s), g)[Len(s)] = g
<1>1. /\ Len(s) \in Nat /\ Len(s) > 0 /\ Front(s) \in Seq(S) /\ Len(Front(s)) = Len(s) - 1
      /\ \A i \in 1 .. Len(s) - 1 : Front(s)[i] = s[i]
  BY FrontAndLast
<1>2. /\ Append(Front(s), g) \in Seq(S) /\ Len(Append(Front(s), g)) = Len(Front(s)) + 1
      /\ \A i \in 1 .. Len(Front(s)) : Append(Front(s), g)[i] = Front(s)[i]
      /\ Append(Front(s), g)[Len(Front(s)) + 1] = g
  BY <1>1, AppendProperties
<1>3. QED
  BY <1>1, <1>2

LEMMA CallPushed ==
  ASSUME NEW S, NEW s \in Seq(S), s # <<>>, NEW g \in S, NEW h \in S
  PROVE  /\ (Front(s) \o <<g, h>>) \in Seq(S) /\ Len((Front(s) \o <<g, h>>)) = Len(s) + 1
         /\ \A i \in 1 .. Len(s) - 1 : (Front(s) \o <<g, h>>)[i] = s[i]
         /\ (Front(s) \o <<g, h>>)[Len(s)] = g /\ (Front(s) \o <<g, h>>)[Len(s) + 1] = h
<1>1. /\ Len(s) \in Nat /\ Len(s) > 0 /\ Front(s) \in Seq(S) /\ Len(Front(s)) = Len(s) - 1
      /\ \A i \in 1 .. Len(s) - 1 : Front(s)[i] = s[i]
  BY FrontAndLast
<1>2. <<g, h>> \in Seq(S) /\ Len(<<g, h>>) = 2 /\ <<g, h>>[1] = g /\ <<g, h>>[2] = h
  OBVIOUS
<1>3. /\ (Front(s) \o <<g, h>>) \in Seq(S) /\ Len((Front(s) \o <<g, h>>)) = Len(Front(s)) + 2
      /\ \A i \in 1 .. Len(Front(s)) + 2 :
            (Front(s) \o <<g, h>>)[i] = IF i <= Len(Front(s)) THEN Front(s)[i] ELSE <<g, h>>[i - Len(Front(s))]
  <2> DEFINE u == <<g, h>>
  <2>1. u \in Seq(S) /\ Len(u) = 2 /\ Front(s) \o <<g, h>> = Front(s) \o u
    BY <1>2
  <2> HIDE DEF u
  <2>2. /\ (Front(s) \o <<g, h>>) \in Seq(S) /\ Len((Front(s) \o <<g, h>>)) = Len(Front(s)) + Len(u)
        /\ \A i \in 1 .. Len(Front(s)) + Len(u) :
              (Front(s) \o <<g, h>>)[i] = IF i <= Len(Front(s)) THEN Front(s)[i] ELSE u[i - Len(Front(s))]
    BY <1>1, <2>1, ConcatProperties
  <2>3. QED
    BY <2>1, <2>2 DEF u
<1>4. \A i \in 1 .. Len(s) - 1 : (Front(s) \o <<g, h>>)[i] = s[i]
  BY <1>1, <1>3
<1>5. (Front(s) \o <<g, h>>)[Len(s)] = g /\ (Front(s) \o <<g, h>>)[Len(s) + 1] = h
  <2>1. /\ Len(s) \in 1 .. Len(Front(s)) + 2 /\ ~(Len(s) <= Len(Front(s)))
        /\ Len(s) - Len(Front(s)) = 1
        /\ Len(s) + 1 \in 1 .. Len(Front(s)) + 2 /\ ~(Len(s) + 1 <= Len(Front(s)))
        /\ Len(s) + 1 - Len(Front(s)) = 2
    BY <1>1
  <2>2. (Front(s) \o <<g, h>>)[Len(s)] = <<g, h>>[1]
    BY <1>3, <2>1
  <2>3. (Front(s) \o <<g, h>>)[Len(s) + 1] = <<g, h>>[2]
    <3> DEFINE n == Len(s) + 1
               u == Front(s) \o <<g, h>>
    <3>1. n \in 1 .. Len(Front(s)) + 2 /\ ~(n <= Len(Front(s))) /\ n - Len(Front(s)) = 2
      BY <2>1
    <3>2. \A i \in 1 .. Len(Front(s)) + 2 :
             u[i] = IF i <= Len(Front(s)) THEN Front(s)[i] ELSE <<g, h>>[i - Len(Front(s))]
      BY <1>3
    <3> HIDE DEF n, u
    <3>3. u[n] = <<g, h>>[n - Len(Front(s))]
      BY <3>1, <3>2
    <3>4. QED
      BY <3>1, <3>3 DEF n, u
  <2>4. QED
    BY <1>2, <2>2, <2>3
<1>6. QED
  BY <1>1, <1>3, <1>4, <1>5

-----------------------------------------------------------------------------
(***************************************************************************)
(* What a step does to the stack of a thread.                              *)
(***************************************************************************)

\* The calls a thread is in, before and after a step.
Same(t, s, n) == \A i \in 1 .. n : t[i] = s[i]
Started(t, s, g) == s = <<>> /\ Len(t) = 1 /\ t[1] = g
Changed(t, s, g) == s # <<>> /\ Len(t) = Len(s) /\ Same(t, s, Len(s) - 1) /\ t[Len(s)] = g
Called(t, s, g, h) ==
    s # <<>> /\ Len(t) = Len(s) + 1 /\ Same(t, s, Len(s) - 1) /\ t[Len(s)] = g /\ t[Len(s) + 1] = h
Returned(t, s) == s # <<>> /\ Len(t) = Len(s) - 1 /\ Same(t, s, Len(s) - 1)

Stack(th) ==
    /\ \A u \in Threads \ {th} : frames'[u] = frames[u]
    /\ frames' \in [Threads -> Seq(Frames)]

LEMMA StackTop ==
  ASSUME Typed, NEW th \in Threads, frames[th] # <<>>
  PROVE  /\ frames[th] \in Seq(Frames) /\ Top(th) \in Frames
         /\ Len(frames[th]) \in Nat /\ Len(frames[th]) > 0
         /\ Top(th) = frames[th][Len(frames[th])]
         /\ Deps[Top(th).type] \in Seq(Types)
<1>1. frames[th] \in Seq(Frames)
  BY DEF Typed
<1>2. /\ Len(frames[th]) \in Nat /\ Len(frames[th]) > 0
      /\ Last(frames[th]) \in Frames /\ Last(frames[th]) = frames[th][Len(frames[th])]
  BY <1>1, FrontAndLast
<1>3. \A f \in Frames : Deps[f.type] \in Seq(Types)
  BY ServicesAssumption DEF Frames
<1>4. QED
  BY <1>1, <1>2, <1>3 DEF Top

LEMMA StackStart ==
  ASSUME Typed, NEW th \in Threads, frames[th] = <<>>, NEW g \in Frames,
         frames' = [frames EXCEPT ![th] = <<g>>]
  PROVE  Stack(th) /\ Started(frames'[th], frames[th], g)
<1>1. <<g>> \in Seq(Frames) /\ Len(<<g>>) = 1 /\ <<g>>[1] = g
  OBVIOUS
<1>2. QED
  BY <1>1 DEF Stack, Started, Typed

LEMMA StackSet ==
  ASSUME Typed, NEW th \in Threads, frames[th] # <<>>, NEW g \in Frames, SetTop(th, g)
  PROVE  Stack(th) /\ Changed(frames'[th], frames[th], g)
<1>1. frames[th] \in Seq(Frames)
  BY DEF Typed
<1>2. /\ frames'[th] = Append(Front(frames[th]), g)
      /\ \A u \in Threads \ {th} : frames'[u] = frames[u]
      /\ frames'[th] \in Seq(Frames) => frames' \in [Threads -> Seq(Frames)]
  BY DEF SetTop, Typed
<1>3. PICK t : t = frames'[th]
  OBVIOUS
<1>4. /\ t \in Seq(Frames) /\ Len(t) = Len(frames[th])
      /\ \A i \in 1 .. Len(frames[th]) - 1 : t[i] = frames[th][i]
      /\ t[Len(frames[th])] = g
  <2>1. PICK s : s = frames[th]
    OBVIOUS
  <2>2. s \in Seq(Frames) /\ s # <<>> /\ t = Append(Front(s), g)
    BY <1>1, <1>2, <1>3, <2>1
  <2>3. /\ t \in Seq(Frames) /\ Len(t) = Len(s)
        /\ \A i \in 1 .. Len(s) - 1 : t[i] = s[i]
        /\ t[Len(s)] = g
    BY <2>2, TopReplaced
  <2>4. QED
    BY <2>1, <2>3
<1>5. QED
  BY <1>2, <1>3, <1>4 DEF Stack, Changed, Same

LEMMA StackCall ==
  ASSUME Typed, NEW th \in Threads, frames[th] # <<>>, NEW g \in Frames, NEW h \in Frames,
         frames' = [frames EXCEPT ![th] = Front(@) \o <<g, h>>]
  PROVE  Stack(th) /\ Called(frames'[th], frames[th], g, h)
<1>1. frames[th] \in Seq(Frames)
  BY DEF Typed
<1>2. /\ frames'[th] = Front(frames[th]) \o <<g, h>>
      /\ \A u \in Threads \ {th} : frames'[u] = frames[u]
      /\ frames'[th] \in Seq(Frames) => frames' \in [Threads -> Seq(Frames)]
  BY DEF Typed
<1>3. PICK t : t = frames'[th]
  OBVIOUS
<1>4. /\ t \in Seq(Frames) /\ Len(t) = Len(frames[th]) + 1
      /\ \A i \in 1 .. Len(frames[th]) - 1 : t[i] = frames[th][i]
      /\ t[Len(frames[th])] = g /\ t[Len(frames[th]) + 1] = h
  <2>1. PICK s : s = frames[th]
    OBVIOUS
  <2>2. s \in Seq(Frames) /\ s # <<>> /\ t = Front(s) \o <<g, h>>
    BY <1>1, <1>2, <1>3, <2>1
  <2>3. /\ t \in Seq(Frames) /\ Len(t) = Len(s) + 1
        /\ \A i \in 1 .. Len(s) - 1 : t[i] = s[i]
        /\ t[Len(s)] = g /\ t[Len(s) + 1] = h
    BY <2>2, CallPushed
  <2>4. QED
    BY <2>1, <2>3
<1>5. QED
  BY <1>2, <1>3, <1>4 DEF Stack, Called, Same

LEMMA StackReturn ==
  ASSUME Typed, NEW th \in Threads, frames[th] # <<>>, NEW x, Return(th, x)
  PROVE  Stack(th) /\ Returned(frames'[th], frames[th])
<1>1. frames[th] \in Seq(Frames)
  BY DEF Typed
<1>2. /\ frames'[th] = Front(frames[th])
      /\ \A u \in Threads \ {th} : frames'[u] = frames[u]
      /\ frames'[th] \in Seq(Frames) => frames' \in [Threads -> Seq(Frames)]
  BY DEF Return, Typed
<1>3. /\ Front(frames[th]) \in Seq(Frames) /\ Len(Front(frames[th])) = Len(frames[th]) - 1
      /\ \A i \in 1 .. Len(frames[th]) - 1 : Front(frames[th])[i] = frames[th][i]
  BY <1>1, FrontAndLast
<1>4. QED
  BY <1>1, <1>2, <1>3 DEF Stack, Returned, Same

LEMMA StackClear ==
  ASSUME Typed, NEW th \in Threads, frames' = [frames EXCEPT ![th] = <<>>]
  PROVE  Stack(th) /\ frames'[th] = <<>>
<1>1. <<>> \in Seq(Frames)
  OBVIOUS
<1>2. QED
  BY <1>1 DEF Stack, Typed

-----------------------------------------------------------------------------
(***************************************************************************)
(* The moves of a thread: each action on its stack is one of these.        *)
(***************************************************************************)
Enters(th) ==
    /\ Stack(th)
    /\ \E g \in Frames : /\ Started(frames'[th], frames[th], g) /\ g.prov = ScopeOf[th]
                         /\ \/ g.at = "look" /\ g.keep
                            \/ g.at = "make" /\ ~g.keep /\ g.todo = Deps[g.type]
    /\ \/ phase[ScopeOf[th]] = "open"
       \/ /\ phase[ScopeOf[th]] = "opening"
          /\ \A u \in Threads : ScopeOf[u] = ScopeOf[th] => frames[u] = <<>>
    /\ UNCHANGED <<services, lock, exits, phase, results>>

Asks(th) ==
    /\ Stack(th) /\ Top(th).at = "look" /\ Registered(Top(th).type, Top(th).prov)
    /\ Changed(frames'[th], frames[th], [Top(th) EXCEPT !.at = "lock"])
    /\ UNCHANGED <<services, lock, exits, phase, results>>

GoesUp(th) ==
    /\ Stack(th) /\ Top(th).at = "look"
    /\ ~Registered(Top(th).type, Top(th).prov) /\ Top(th).prov # App
    /\ Changed(frames'[th], frames[th], [Top(th) EXCEPT !.prov = App])
    /\ UNCHANGED <<services, lock, exits, phase, results>>

Begins(th) ==
    /\ Stack(th) /\ Top(th).at = "lock" /\ ~Found(Top(th).type, Top(th).prov)
    /\ Free(Top(th).prov, th) /\ TakeLock(Top(th).prov, th)
    /\ Changed(frames'[th], frames[th],
               [Top(th) EXCEPT !.at = "make", !.todo = Deps[Top(th).type]])
    /\ UNCHANGED <<services, exits, phase, results>>

Waits(th) ==
    /\ Stack(th) /\ Top(th).at = "make" /\ Top(th).todo # <<>>
    /\ Called(frames'[th], frames[th], [Top(th) EXCEPT !.todo = Tail(@)],
              Frame(Head(Top(th).todo), Top(th).prov))
    /\ UNCHANGED <<services, lock, exits, phase, results>>

\* A call returns x to the call below it, or to the thread.
Answers(th, x) ==
    /\ Stack(th) /\ Returned(frames'[th], frames[th])
    /\ results' = IF Len(frames[th]) = 1
                    THEN [results EXCEPT ![th] = @ \cup {[asked |-> Top(th).type, got |-> x]}]
                    ELSE results

Finds(th) ==
    /\ Top(th).at \in {"look", "lock"} /\ Found(Top(th).type, Top(th).prov)
    /\ Answers(th, services[Top(th).prov][Top(th).type])
    /\ UNCHANGED <<services, lock, exits, phase>>

NewInstance(f) ==
    [type |-> f.type, of |-> f.prov,
     n |-> Cardinality({k \in DOMAIN exits[f.prov] : exits[f.prov][k].type = f.type})]

Publishes(th) ==
    LET f == Top(th) IN
    /\ f.at = "make" /\ f.todo = <<>> /\ f.keep
    /\ Answers(th, NewInstance(f))
    /\ exits' = [exits EXCEPT ![f.prov] = Append(@, NewInstance(f))]
    /\ services' = [services EXCEPT ![f.prov][f.type] = NewInstance(f)]
    /\ lock' = [lock EXCEPT ![f.prov] = Released(@)]
    /\ UNCHANGED phase

\* An exception, or the end of create.
Drops(th) ==
    /\ Stack(th) /\ frames[th] # <<>> /\ frames'[th] = <<>>
    /\ \/ Raise(th)
       \/ /\ Top(th).at = "make" /\ ~Top(th).keep
          /\ UNCHANGED <<services, lock, exits, phase, results>>
    /\ UNCHANGED <<services, exits, results>>

Moves(th) ==
    Enters(th) \/ Asks(th) \/ GoesUp(th) \/ Begins(th) \/ Waits(th) \/ Finds(th)
    \/ Publishes(th) \/ Drops(th)

LEMMA NewInstanceTyped ==
  ASSUME Typed, NEW f \in Frames
  PROVE  NewInstance(f) \in Instances /\ NewInstance(f) # NoInstance
<1> DEFINE e == exits[f.prov]
           K == {k \in DOMAIN e : e[k].type = f.type}
<1>1. e \in Seq(Instances) /\ f.type \in Types /\ f.prov \in Scopes
  BY DEF Typed, Frames
<1>2. DOMAIN e = 1 .. Len(e) /\ Len(e) \in Nat
  BY <1>1, LenProperties
<1>3. IsFiniteSet(1 .. Len(e)) /\ K \subseteq 1 .. Len(e)
  BY <1>2, FS_Interval
<1>4. Cardinality(K) \in Nat
  BY <1>3, FS_Subset, FS_CardinalityType
<1>5. NewInstance(f) = [type |-> f.type, of |-> f.prov, n |-> Cardinality(K)]
  BY DEF NewInstance
<1> HIDE DEF K
<1>6. NewInstance(f) \in Instances
  BY <1>1, <1>4, <1>5 DEF Instances
<1>7. NewInstance(f).type = f.type /\ NoInstance.type = "none" /\ f.type # "none"
  BY <1>1, <1>5, ServicesAssumption DEF NoInstance
<1>8. QED
  BY <1>6, <1>7

LEMMA ThreadMoves ==
  ASSUME Typed, NEW th \in Threads,
         ResolveEager(th) \/ Resolve(th) \/ Create(th) \/ ThreadStep(th) \/ Fail(th)
  PROVE  Moves(th)
<1> USE DEF scopeVars, threadVars
<1>0. \A type \in Types, p \in Scopes : Frame(type, p) \in Frames /\ Frame(type, p).prov = p
         /\ Frame(type, p).at = "look" /\ Frame(type, p).keep
  BY DEF Frame, Frames
<1>1. ScopeOf[th] \in Scopes /\ Deps \in [Types -> Seq(Types)]
  BY ServicesAssumption
<1>2. CASE ResolveEager(th)
  <2>1. PICK type \in eager[ScopeOf[th]] :
           frames' = [frames EXCEPT ![th] = <<Frame(type, ScopeOf[th])>>]
    BY <1>2 DEF ResolveEager
  <2>2. type \in Types /\ frames[th] = <<>>
    BY <1>1, <1>2, <2>1 DEF Typed, ResolveEager
  <2>3. Stack(th) /\ Started(frames'[th], frames[th], Frame(type, ScopeOf[th]))
    BY <1>0, <1>1, <2>1, <2>2, StackStart
  <2>4. Enters(th)
    BY <1>0, <1>1, <1>2, <2>2, <2>3 DEF ResolveEager, Enters
  <2>5. QED
    BY <2>4 DEF Moves
<1>3. CASE Resolve(th)
  <2>1. PICK type \in Types : frames' = [frames EXCEPT ![th] = <<Frame(type, ScopeOf[th])>>]
    BY <1>3 DEF Resolve
  <2>2. Stack(th) /\ Started(frames'[th], frames[th], Frame(type, ScopeOf[th]))
    BY <1>0, <1>1, <1>3, <2>1, StackStart DEF Resolve, Idle
  <2>3. Enters(th)
    BY <1>0, <1>1, <1>3, <2>2 DEF Resolve, Idle, Enters
  <2>4. QED
    BY <2>3 DEF Moves
<1>4. CASE Create(th)
  <2>1. PICK type \in Types :
           frames' = [frames EXCEPT ![th] =
              <<[Frame(type, ScopeOf[th]) EXCEPT !.at = "make", !.todo = Deps[type],
                                                 !.keep = FALSE]>>]
    BY <1>4 DEF Create
  <2> DEFINE g == [Frame(type, ScopeOf[th]) EXCEPT !.at = "make", !.todo = Deps[type],
                                                    !.keep = FALSE]
  <2>2. g \in Frames /\ g.prov = ScopeOf[th] /\ g.at = "make" /\ ~g.keep /\ g.todo = Deps[g.type]
    BY <1>1 DEF Frame, Frames
  <2>3. frames' = [frames EXCEPT ![th] = <<g>>]
    BY <2>1
  <2> HIDE DEF g
  <2>4. Stack(th) /\ Started(frames'[th], frames[th], g)
    BY <1>4, <2>2, <2>3, StackStart DEF Create, Idle
  <2>5. Enters(th)
    BY <1>4, <2>2, <2>4 DEF Create, Idle, Enters
  <2>6. QED
    BY <2>5 DEF Moves
<1>5. ASSUME frames[th] # <<>> PROVE Top(th) \in Frames /\ frames[th] # <<>>
  BY <1>5, StackTop
<1>6. CASE Look(th)
  <2>1. Top(th) \in Frames /\ frames[th] # <<>> /\ Top(th).at = "look"
    BY <1>5, <1>6 DEF Look, In
  <2>2. CASE /\ Found(Top(th).type, Top(th).prov)
             /\ Return(th, services[Top(th).prov][Top(th).type])
             /\ UNCHANGED <<services, lock, exits, scopeVars, calls>>
    <3>1. Finds(th)
      BY <2>1, <2>2, StackReturn DEF Return, Finds, Answers
    <3>2. QED
      BY <3>1 DEF Moves
  <2>3. CASE /\ Registered(Top(th).type, Top(th).prov)
             /\ SetTop(th, [Top(th) EXCEPT !.at = "lock"])
             /\ UNCHANGED <<services, lock, exits, scopeVars, calls, results>>
    <3>1. [Top(th) EXCEPT !.at = "lock"] \in Frames
      BY <2>1 DEF Frames
    <3>2. Asks(th)
      BY <2>1, <2>3, <3>1, StackSet DEF Asks
    <3>3. QED
      BY <3>2 DEF Moves
  <2>4. CASE /\ ~Registered(Top(th).type, Top(th).prov) /\ Top(th).prov # App
             /\ SetTop(th, [Top(th) EXCEPT !.prov = App])
             /\ UNCHANGED <<services, lock, exits, scopeVars, calls, results>>
    <3>1. [Top(th) EXCEPT !.prov = App] \in Frames
      BY <2>1 DEF Frames, Scopes
    <3>2. GoesUp(th)
      BY <2>1, <2>4, <3>1, StackSet DEF GoesUp
    <3>3. QED
      BY <3>2 DEF Moves
  <2>5. CASE Raise(th)
    <3>1. Drops(th)
      BY <2>1, <2>5, StackClear DEF Drops, Raise
    <3>2. QED
      BY <3>1 DEF Moves
  <2>6. QED
    BY <1>6, <2>2, <2>3, <2>4, <2>5 DEF Look
<1>7. CASE Acquire(th)
  <2>1. Top(th) \in Frames /\ frames[th] # <<>> /\ Top(th).at = "lock"
    BY <1>5, <1>7 DEF Acquire, In
  <2>2. CASE Found(Top(th).type, Top(th).prov)
    <3>1. Return(th, services[Top(th).prov][Top(th).type])
          /\ UNCHANGED <<services, lock, exits, phase>>
      BY <1>7, <2>2 DEF Acquire
    <3>2. Finds(th)
      BY <2>1, <2>2, <3>1, StackReturn DEF Return, Finds, Answers
    <3>3. QED
      BY <3>2 DEF Moves
  <2>3. CASE ~Found(Top(th).type, Top(th).prov)
    <3>1. [Top(th) EXCEPT !.at = "make", !.todo = Deps[Top(th).type]] \in Frames
      BY <1>1, <2>1 DEF Frames
    <3>2. /\ Free(Top(th).prov, th) /\ TakeLock(Top(th).prov, th)
          /\ SetTop(th, [Top(th) EXCEPT !.at = "make", !.todo = Deps[Top(th).type]])
          /\ UNCHANGED <<services, exits, phase, results>>
      BY <1>7, <2>3 DEF Acquire
    <3>3. Begins(th)
      BY <2>1, <2>3, <3>1, <3>2, StackSet DEF Begins
    <3>4. QED
      BY <3>3 DEF Moves
  <2>4. QED
    BY <2>2, <2>3
<1>8. CASE NextDep(th)
  <2>1. Top(th) \in Frames /\ frames[th] # <<>> /\ Top(th).at = "make" /\ Top(th).todo # <<>>
    BY <1>5, <1>8 DEF NextDep, In
  <2>2. Top(th).todo \in Seq(Types) /\ Top(th).prov \in Scopes
    BY <2>1 DEF Frames
  <2>3. Head(Top(th).todo) \in Types /\ Tail(Top(th).todo) \in Seq(Types)
    BY <2>1, <2>2, HeadTailProperties
  <2>4. [Top(th) EXCEPT !.todo = Tail(@)] \in Frames /\ Frame(Head(Top(th).todo), Top(th).prov) \in Frames
    BY <1>0, <2>1, <2>2, <2>3 DEF Frames
  <2>5. frames' = [frames EXCEPT ![th] = Front(@) \o <<[Top(th) EXCEPT !.todo = Tail(@)],
                                                       Frame(Head(Top(th).todo), Top(th).prov)>>]
    BY <1>8 DEF NextDep
  <2>6. Waits(th)
    BY <1>8, <2>1, <2>4, <2>5, StackCall DEF NextDep, Waits
  <2>7. QED
    BY <2>6 DEF Moves
<1>9. CASE Make(th)
  <2>1. Top(th) \in Frames /\ frames[th] # <<>> /\ Top(th).at = "make" /\ Top(th).todo = <<>>
    BY <1>5, <1>9 DEF Make, In
  <2>2. CASE Top(th).keep
    <3>1. Return(th, NewInstance(Top(th)))
      BY <1>9, <2>2 DEF Make, NewInstance
    <3>2. Answers(th, NewInstance(Top(th)))
      BY <2>1, <3>1, StackReturn DEF Return, Answers
    <3>3. Publishes(th)
      BY <1>9, <2>1, <2>2, <3>2 DEF Make, NewInstance, Publishes
    <3>4. QED
      BY <3>3 DEF Moves
  <2>3. CASE ~Top(th).keep
    <3>1. frames' = [frames EXCEPT ![th] = <<>>] /\ UNCHANGED <<services, lock, exits, phase, results>>
      BY <1>9, <2>3 DEF Make
    <3>2. Drops(th)
      BY <2>1, <2>3, <3>1, StackClear DEF Drops
    <3>3. QED
      BY <3>2 DEF Moves
  <2>4. QED
    BY <2>2, <2>3
<1>10. CASE Fail(th)
  <2>1. frames[th] # <<>> /\ Raise(th)
    BY <1>10 DEF Fail, In
  <2>2. Drops(th)
    BY <2>1, StackClear DEF Drops, Raise
  <2>3. QED
    BY <2>2 DEF Moves
<1>11. QED
  BY <1>2, <1>3, <1>4, <1>6, <1>7, <1>8, <1>9, <1>10 DEF ThreadStep

-----------------------------------------------------------------------------
(***************************************************************************)
(* Types.                                                                  *)
(***************************************************************************)
ScopeStep ==
    \/ \E p \in Scopes : OpenScope(p) \/ Opened(p) \/ CloseScope(p) \/ CloseOne(p)
    \/ Over \/ UNCHANGED vars

ThreadMoved(th) ==
    ResolveEager(th) \/ Resolve(th) \/ Create(th) \/ ThreadStep(th) \/ Fail(th)

LEMMA NextCases ==
  ASSUME [Next]_vars
  PROVE  ScopeStep \/ \E th \in Threads : ThreadMoved(th)
  BY DEF Next, ScopeStep, ThreadMoved

LEMMA EagerTyped ==
  ASSUME Typed, NEW th \in Threads, ThreadMoved(th)
  PROVE  eager' \in [Scopes -> SUBSET Types]
<1> USE DEF scopeVars, threadVars, Typed
<1>1. CASE ResolveEager(th)
  <2>1. PICK type \in eager[ScopeOf[th]] :
           eager' = [eager EXCEPT ![ScopeOf[th]] = @ \ {type}]
    BY <1>1 DEF ResolveEager
  <2>2. QED
    BY <2>1
<1>2. CASE ~ResolveEager(th)
  <2>1. UNCHANGED eager
    BY <1>2 DEF ThreadMoved, ThreadStep, Resolve, Create, Look, Raise, Acquire, NextDep, Make, Fail
  <2>2. QED
    BY <2>1
<1>3. QED
  BY <1>1, <1>2

LEMMA TypedMoves ==
  ASSUME Typed, NEW th \in Threads, Moves(th), eager' \in [Scopes -> SUBSET Types]
  PROVE  Typed'
<1>0. App \in Scopes /\ ScopeOf[th] \in Scopes
  BY ServicesAssumption DEF Scopes
<1>1. frames' \in [Threads -> Seq(Frames)]
  BY DEF Moves, Enters, Asks, GoesUp, Begins, Waits, Finds, Publishes, Answers, Drops, Stack
<1>2. ASSUME frames[th] # <<>>
      PROVE  Top(th) \in Frames /\ Top(th).prov \in Scopes /\ Top(th).type \in Types
  BY <1>2, StackTop DEF Frames
<1>3. ASSUME NEW x \in Instances, Answers(th, x), frames[th] # <<>>
      PROVE  results' \in [Threads -> SUBSET [asked : Types, got : Instances]]
  BY <1>2, <1>3 DEF Answers, Typed
<1>4. CASE Enters(th) \/ Asks(th) \/ GoesUp(th) \/ Waits(th)
  BY <1>1, <1>4 DEF Enters, Asks, GoesUp, Waits, Typed
<1>5. CASE Begins(th)
  <2>1. Top(th).prov \in Scopes
    BY <1>2, <1>5 DEF Begins, Changed
  <2>2. lock' \in [Scopes -> [owner : Threads \cup {Nobody}, depth : Int]]
    BY <1>5, <2>1 DEF Begins, TakeLock, Typed
  <2>3. QED
    BY <1>1, <1>5, <2>2 DEF Begins, Typed
<1>6. CASE Finds(th)
  <2>1. frames[th] # <<>>
    BY <1>6 DEF Finds, Answers, Returned
  <2>2. services[Top(th).prov][Top(th).type] \in Instances
    BY <1>2, <1>6, <2>1 DEF Finds, Found, Typed
  <2>3. results' \in [Threads -> SUBSET [asked : Types, got : Instances]]
    BY <1>3, <1>6, <2>1, <2>2 DEF Finds
  <2>4. QED
    BY <1>1, <1>6, <2>3 DEF Finds, Typed
<1>7. CASE Publishes(th)
  <2>1. frames[th] # <<>>
    BY <1>7 DEF Publishes, Answers, Returned
  <2>2. NewInstance(Top(th)) \in Instances
    BY <1>2, <2>1, NewInstanceTyped
  <2>3. results' \in [Threads -> SUBSET [asked : Types, got : Instances]]
    BY <1>3, <1>7, <2>1, <2>2 DEF Publishes
  <2>4. PICK p \in Scopes, type \in Types, x \in Instances :
           /\ exits' = [exits EXCEPT ![p] = Append(@, x)]
           /\ services' = [services EXCEPT ![p][type] = x]
           /\ lock' = [lock EXCEPT ![p] = Released(@)] /\ UNCHANGED phase
    BY <1>2, <1>7, <2>1, <2>2 DEF Publishes
  <2>5. Append(exits[p], x) \in Seq(Instances)
    BY <2>4, AppendProperties DEF Typed
  <2>6. exits' \in [Scopes -> Seq(Instances)]
    BY <2>4, <2>5 DEF Typed
  <2>7. services' \in [Scopes -> [Types -> Instances \cup {NoInstance}]]
    BY <2>4 DEF Typed
  <2>8. lock' \in [Scopes -> [owner : Threads \cup {Nobody}, depth : Int]]
    <3>1. ASSUME NEW l \in [owner : Threads \cup {Nobody}, depth : Int]
          PROVE  Released(l) \in [owner : Threads \cup {Nobody}, depth : Int]
      BY <3>1 DEF Released
    <3>2. QED
      BY <2>4, <3>1 DEF Typed
  <2>9. QED
    BY <1>1, <1>7, <2>3, <2>4, <2>6, <2>7, <2>8 DEF Typed
<1>8. CASE Drops(th)
  <2>1. UNCHANGED <<services, exits, results>>
    BY <1>8 DEF Drops
  <2>2. /\ lock' \in [Scopes -> [owner : Threads \cup {Nobody}, depth : Int]]
        /\ phase' \in [Scopes -> {"new", "opening", "open", "closing", "closed"}]
    <3>1. CASE Raise(th)
      <4>1. [owner |-> Nobody, depth |-> 0] \in [owner : Threads \cup {Nobody}, depth : Int]
        OBVIOUS
      <4>2. lock' \in [Scopes -> [owner : Threads \cup {Nobody}, depth : Int]]
        BY <3>1, <4>1 DEF Raise, Typed
      <4>3. phase' \in [Scopes -> {"new", "opening", "open", "closing", "closed"}]
        BY <1>0, <3>1 DEF Raise, Typed
      <4>4. QED
        BY <4>2, <4>3
    <3>2. CASE ~Raise(th)
      BY <1>8, <3>2 DEF Drops, Typed
    <3>3. QED
      BY <3>1, <3>2
  <2>3. QED
    BY <1>1, <2>1, <2>2 DEF Typed
<1>9. QED
  BY <1>4, <1>5, <1>6, <1>7, <1>8 DEF Moves

LEMMA TypedScope ==
  ASSUME Typed, ScopeStep
  PROVE  Typed' /\ UNCHANGED <<services, lock, frames, results>>
<1> USE DEF scopeVars, threadVars, vars
<1>1. UNCHANGED <<services, lock, frames, results>>
  BY DEF ScopeStep, OpenScope, Opened, CloseScope, CloseOne, Over
<1>2. ASSUME NEW p \in Scopes, OpenScope(p) PROVE Typed'
  <2>1. EagerOf(p) \subseteq Types
    BY ServicesAssumption DEF EagerOf
  <2>2. /\ phase' = [phase EXCEPT ![p] = "opening"] /\ eager' = [eager EXCEPT ![p] = EagerOf(p)]
        /\ UNCHANGED exits
    BY <1>2 DEF OpenScope
  <2>3. QED
    BY <1>1, <2>1, <2>2 DEF Typed
<1>3. CASE \E p \in Scopes : Opened(p) \/ CloseScope(p)
  BY <1>1, <1>3 DEF Opened, CloseScope, Typed
<1>4. ASSUME NEW p \in Scopes, CloseOne(p) PROVE Typed'
  <2>1. CASE exits[p] = <<>>
    BY <1>1, <1>4, <2>1 DEF CloseOne, Typed
  <2>2. CASE exits[p] # <<>>
    <3>1. exits[p] \in Seq(Instances)
      BY DEF Typed
    <3>2. Front(exits[p]) \in Seq(Instances)
      BY <2>2, <3>1, FrontAndLast
    <3>3. exits' = [exits EXCEPT ![p] = Front(exits[p])] /\ UNCHANGED <<phase, eager>>
      BY <1>4, <2>2 DEF CloseOne
    <3>4. QED
      BY <1>1, <3>2, <3>3 DEF Typed
  <2>3. QED
    BY <2>1, <2>2
<1>5. CASE Over \/ UNCHANGED vars
  BY <1>5 DEF Over, Typed
<1>6. QED
  BY <1>1, <1>2, <1>3, <1>4, <1>5 DEF ScopeStep

LEMMA TypedNext ==
  ASSUME Typed, [Next]_vars
  PROVE  Typed'
<1>1. ASSUME NEW th \in Threads, ThreadMoved(th) PROVE Typed'
  BY <1>1, EagerTyped, ThreadMoves, TypedMoves DEF ThreadMoved
<1>2. QED
  BY <1>1, NextCases, TypedScope

-----------------------------------------------------------------------------
(***************************************************************************)
(* The stack of calls.                                                     *)
(***************************************************************************)

\* A call fits as long as it, its caller's provider and what it waits for stay.
LEMMA FitsStill ==
  ASSUME NEW th, NEW s, NEW t, NEW i \in Nat, FrameFits(th, s, i), t[i] = s[i],
         i # 1 => t[i - 1].prov = s[i - 1].prov,
         i < Len(t) => i < Len(s) /\ t[i + 1].type = s[i + 1].type
  PROVE  FrameFits(th, t, i)
  BY DEF FrameFits, Caller

LEMMA ChangedFits ==
  ASSUME NEW th, NEW s, NEW t, NEW g, Len(s) \in Nat, Len(s) > 0, Changed(t, s, g),
         \A i \in 1 .. Len(s) : FrameFits(th, s, i), g.type = s[Len(s)].type,
         FrameFits(th, t, Len(s))
  PROVE  \A i \in 1 .. Len(t) : FrameFits(th, t, i)
<1>1. Len(t) = Len(s) /\ t[Len(s)] = g /\ \A i \in 1 .. Len(s) - 1 : t[i] = s[i]
  BY DEF Changed, Same
<1>2. ASSUME NEW i \in 1 .. Len(s) - 1 PROVE FrameFits(th, t, i)
  <2>1. /\ FrameFits(th, s, i) /\ t[i] = s[i] /\ i \in Nat
        /\ i # 1 => t[i - 1] = s[i - 1]
        /\ i < Len(s)
    BY <1>1
  <2>2. CASE i + 1 = Len(s)
    <3>1. t[i + 1].type = s[i + 1].type
      BY <1>1, <2>2
    <3>2. QED
      BY <2>1, <3>1, FitsStill
  <2>3. CASE i + 1 # Len(s)
    <3>1. i + 1 \in 1 .. Len(s) - 1
      BY <2>3
    <3>2. t[i + 1] = s[i + 1]
      BY <1>1, <3>1
    <3>3. QED
      BY <2>1, <3>2, FitsStill
  <2>4. QED
    BY <2>2, <2>3
<1>3. ASSUME NEW i \in 1 .. Len(t) PROVE FrameFits(th, t, i)
  <2>1. CASE i = Len(s)
    BY <2>1
  <2>2. CASE i # Len(s)
    BY <1>1, <1>2, <2>2
  <2>3. QED
    BY <2>1, <2>2
<1>4. QED
  BY <1>3

LEMMA ReturnedFits ==
  ASSUME NEW th, NEW s, NEW t, Len(s) \in Nat, Len(s) > 0, Returned(t, s),
         \A i \in 1 .. Len(s) : FrameFits(th, s, i)
  PROVE  \A i \in 1 .. Len(t) : FrameFits(th, t, i)
<1>1. Len(t) = Len(s) - 1 /\ \A i \in 1 .. Len(s) - 1 : t[i] = s[i]
  BY DEF Returned, Same
<1>2. ASSUME NEW i \in 1 .. Len(t) PROVE FrameFits(th, t, i)
  <2>1. /\ FrameFits(th, s, i) /\ t[i] = s[i] /\ i \in Nat
        /\ i # 1 => t[i - 1] = s[i - 1]
        /\ i < Len(t) => i < Len(s)
    BY <1>1
  <2>2. i < Len(t) => t[i + 1] = s[i + 1]
    BY <1>1
  <2>3. QED
    BY <2>1, <2>2, FitsStill
<1>3. QED
  BY <1>2

LEMMA CalledFits ==
  ASSUME NEW th, NEW s, NEW t, NEW g, NEW h, Len(s) \in Nat, Len(s) > 0, Called(t, s, g, h),
         \A i \in 1 .. Len(s) : FrameFits(th, s, i), g.type = s[Len(s)].type,
         FrameFits(th, t, Len(s)), FrameFits(th, t, Len(s) + 1)
  PROVE  \A i \in 1 .. Len(t) : FrameFits(th, t, i)
<1>1. Len(t) = Len(s) + 1 /\ t[Len(s)] = g /\ \A i \in 1 .. Len(s) - 1 : t[i] = s[i]
  BY DEF Called, Same
<1>2. ASSUME NEW i \in 1 .. Len(s) - 1 PROVE FrameFits(th, t, i)
  <2>1. /\ FrameFits(th, s, i) /\ t[i] = s[i] /\ i \in Nat
        /\ i # 1 => t[i - 1] = s[i - 1]
        /\ i < Len(s)
    BY <1>1
  <2>2. CASE i + 1 = Len(s)
    <3>1. t[i + 1].type = s[i + 1].type
      BY <1>1, <2>2
    <3>2. QED
      BY <2>1, <3>1, FitsStill
  <2>3. CASE i + 1 # Len(s)
    <3>1. i + 1 \in 1 .. Len(s) - 1
      BY <2>3
    <3>2. t[i + 1] = s[i + 1]
      BY <1>1, <3>1
    <3>3. QED
      BY <2>1, <3>2, FitsStill
  <2>4. QED
    BY <2>2, <2>3
<1>3. ASSUME NEW i \in 1 .. Len(t) PROVE FrameFits(th, t, i)
  <2>1. i \in 1 .. Len(s) - 1 \/ i = Len(s) \/ i = Len(s) + 1
    BY <1>1
  <2>2. QED
    BY <1>2, <2>1
<1>4. QED
  BY <1>3

LEMMA CallerStays ==
  ASSUME NEW th, NEW s, NEW t, NEW n \in Nat, n > 0, Same(t, s, n - 1)
  PROVE  Caller(th, t, n) = Caller(th, s, n)
<1>1. n # 1 => n - 1 \in 1 .. n - 1
  OBVIOUS
<1>2. QED
  BY <1>1 DEF Same, Caller

LEMMA ShapeMoves ==
  ASSUME Typed, Typed', Shape, NEW th \in Threads, Moves(th)
  PROVE  Shape'
<1>1. PICK s, t, n, f : s = frames[th] /\ t = frames'[th] /\ n = Len(s) /\ f = Top(th)
  OBVIOUS
<1>2. /\ s \in Seq(Frames) /\ t \in Seq(Frames) /\ n \in Nat /\ Len(t) \in Nat
      /\ s # <<>> => n > 0 /\ f \in Frames /\ f = s[n] /\ Deps[f.type] \in Seq(Types)
  BY <1>1, StackTop, LenProperties DEF Typed
<1>3. Stack(th)
  BY DEF Moves, Enters, Asks, GoesUp, Begins, Waits, Finds, Publishes, Answers, Drops
<1>4. \A i \in 1 .. n : FrameFits(th, s, i)
  BY <1>1 DEF Shape
<1>5. SUFFICES \A i \in 1 .. Len(t) : FrameFits(th, t, i)
  BY <1>1, <1>3 DEF Shape, Stack
<1>6. s # <<>> => FrameFits(th, s, n)
  BY <1>2, <1>4
<1>7. CASE Enters(th)
  <2>1. PICK g \in Frames : /\ Len(t) = 1 /\ t[1] = g /\ g.prov = ScopeOf[th]
                            /\ \/ g.at = "look" /\ g.keep
                               \/ g.at = "make" /\ ~g.keep /\ g.todo = Deps[g.type]
    BY <1>1, <1>7 DEF Enters, Started
  <2>2. Deps[g.type] \in Seq(Types)
    BY ServicesAssumption DEF Frames
  <2>3. Len(Deps[g.type]) \in Nat
    BY <2>2, LenProperties
  <2>4. g.at = "make" => /\ Len(g.todo) <= Len(Deps[g.type])
                         /\ \A k \in 1 .. Len(g.todo) : g.todo[k] = Deps[g.type][Asked(g) + k]
    <3>1. ASSUME g.at = "make" PROVE g.todo = Deps[g.type] /\ Asked(g) = 0
      BY <2>1, <2>3, <3>1 DEF Asked
    <3>2. QED
      BY <2>3, <3>1
  <2>5. FrameFits(th, t, 1)
    BY <2>1, <2>4 DEF FrameFits, Caller
  <2>6. QED
    BY <2>1, <2>5
<1>8. CASE Asks(th)
  <2>1. PICK g : g = [f EXCEPT !.at = "lock"]
    OBVIOUS
  <2>2. /\ Changed(t, s, g) /\ s # <<>> /\ f.at = "look" /\ Registered(f.type, f.prov)
    BY <1>1, <1>8, <2>1 DEF Asks, Changed
  <2>3. Len(t) = n /\ t[n] = g /\ Caller(th, t, n) = Caller(th, s, n)
    BY <1>1, <1>2, <2>2, CallerStays DEF Changed
  <2>4. g.at = "lock" /\ g.type = f.type /\ g.prov = f.prov /\ g.keep = f.keep
    BY <1>2, <2>1, <2>2 DEF Frames
  <2>5. FrameFits(th, t, n)
    BY <1>2, <1>6, <2>2, <2>3, <2>4 DEF FrameFits
  <2>6. QED
    BY <1>1, <1>2, <1>4, <2>2, <2>4, <2>5, ChangedFits
<1>9. CASE GoesUp(th)
  <2>1. PICK g : g = [f EXCEPT !.prov = App]
    OBVIOUS
  <2>2. /\ Changed(t, s, g) /\ s # <<>> /\ f.at = "look" /\ ~Registered(f.type, f.prov)
        /\ f.prov # App
    BY <1>1, <1>9, <2>1 DEF GoesUp, Changed
  <2>3. Len(t) = n /\ t[n] = g /\ Caller(th, t, n) = Caller(th, s, n)
    BY <1>1, <1>2, <2>2, CallerStays DEF Changed
  <2>4. g.at = "look" /\ g.type = f.type /\ g.prov = App /\ g.keep = f.keep
    BY <1>2, <2>1, <2>2 DEF Frames
  <2>5. FrameFits(th, t, n)
    BY <1>2, <1>6, <2>2, <2>3, <2>4 DEF FrameFits
  <2>6. QED
    BY <1>1, <1>2, <1>4, <2>2, <2>4, <2>5, ChangedFits
<1>10. CASE Begins(th)
  <2>1. PICK g : g = [f EXCEPT !.at = "make", !.todo = Deps[f.type]]
    OBVIOUS
  <2>2. /\ Changed(t, s, g) /\ s # <<>> /\ f.at = "lock"
    BY <1>1, <1>10, <2>1 DEF Begins, Changed
  <2>3. Len(t) = n /\ t[n] = g /\ Caller(th, t, n) = Caller(th, s, n)
    BY <1>1, <1>2, <2>2, CallerStays DEF Changed
  <2>4. g.at = "make" /\ g.type = f.type /\ g.prov = f.prov /\ g.keep = f.keep
        /\ g.todo = Deps[g.type] /\ Len(Deps[g.type]) \in Nat
    BY <1>2, <2>1, <2>2, LenProperties DEF Frames
  <2>5. FrameFits(th, t, n)
    BY <1>2, <1>6, <2>2, <2>3, <2>4 DEF FrameFits, Asked
  <2>6. QED
    BY <1>1, <1>2, <1>4, <2>2, <2>4, <2>5, ChangedFits
<1>11. CASE Waits(th)
  <2>1. PICK g, h : g = [f EXCEPT !.todo = Tail(f.todo)] /\ h = Frame(Head(f.todo), f.prov)
    OBVIOUS
  <2>2. /\ Called(t, s, g, h) /\ s # <<>> /\ f.at = "make" /\ f.todo # <<>>
    BY <1>1, <1>11, <2>1 DEF Waits, Called
  <2>3. Len(t) = n + 1 /\ t[n] = g /\ t[n + 1] = h /\ Caller(th, t, n) = Caller(th, s, n)
    BY <1>1, <1>2, <2>2, CallerStays DEF Called
  <2>4. f.todo \in Seq(Types) /\ Len(f.todo) \in Nat /\ Len(f.todo) > 0 /\ Len(Deps[f.type]) \in Nat
    BY <1>2, <2>2, LenProperties, EmptySeq DEF Frames
  <2>5. /\ Len(Tail(f.todo)) = Len(f.todo) - 1
        /\ \A i \in 1 .. Len(Tail(f.todo)) : Tail(f.todo)[i] = f.todo[i + 1]
        /\ Head(f.todo) = f.todo[1]
    BY <2>2, <2>4, HeadTailProperties
  <2>6. /\ g.at = "make" /\ g.type = f.type /\ g.prov = f.prov /\ g.keep = f.keep
        /\ g.todo = Tail(f.todo)
        /\ h.at = "look" /\ h.type = Head(f.todo) /\ h.prov = f.prov /\ h.keep
    BY <1>2, <2>1, <2>2 DEF Frames, Frame
  <2>7. Asked(g) = Asked(f) + 1 /\ Asked(f) \in Int
    <3>1. Len(g.todo) = Len(f.todo) - 1 /\ Deps[g.type] = Deps[f.type]
      BY <2>5, <2>6
    <3>2. QED
      BY <2>4, <3>1 DEF Asked
  <2>8. /\ Len(f.todo) <= Len(Deps[f.type])
        /\ \A k \in 1 .. Len(f.todo) : f.todo[k] = Deps[f.type][Asked(f) + k]
    BY <1>2, <1>6, <2>2 DEF FrameFits
  <2>9. /\ Len(g.todo) <= Len(Deps[g.type])
        /\ \A k \in 1 .. Len(g.todo) : g.todo[k] = Deps[g.type][Asked(g) + k]
    <3>1. ASSUME NEW k \in 1 .. Len(g.todo) PROVE g.todo[k] = Deps[g.type][Asked(g) + k]
      <4>1. k + 1 \in 1 .. Len(f.todo) /\ g.todo[k] = f.todo[k + 1]
        BY <2>4, <2>5, <2>6, <3>1
      <4>2. Asked(f) + (k + 1) = Asked(g) + k
        BY <2>7
      <4>3. QED
        BY <2>6, <2>8, <4>1, <4>2
    <3>2. QED
      BY <2>4, <2>5, <2>6, <2>8, <3>1
  <2>10. Asked(g) > 0 /\ h.type = Deps[g.type][Asked(g)]
    <3>1. Asked(f) >= 0
      BY <2>4, <2>8 DEF Asked
    <3>2. 1 \in 1 .. Len(f.todo) /\ h.type = f.todo[1]
      BY <2>4, <2>5, <2>6
    <3>3. f.todo[1] = Deps[f.type][Asked(f) + 1]
      BY <2>8, <3>2
    <3>4. QED
      BY <2>6, <2>7, <3>1, <3>2, <3>3
  <2>11. FrameFits(th, t, n)
    BY <1>2, <1>6, <2>2, <2>3, <2>6, <2>9, <2>10 DEF FrameFits
  <2>12. Caller(th, t, n + 1) = f.prov
    BY <1>2, <2>2, <2>3, <2>6 DEF Caller
  <2>13. FrameFits(th, t, n + 1)
    BY <1>2, <1>6, <2>2, <2>3, <2>6, <2>12 DEF FrameFits
  <2>14. QED
    BY <1>1, <1>2, <1>4, <2>2, <2>6, <2>11, <2>13, CalledFits
<1>12. CASE Finds(th) \/ Publishes(th)
  <2>1. Returned(t, s) /\ s # <<>>
    BY <1>1, <1>12 DEF Finds, Publishes, Answers, Returned
  <2>2. QED
    BY <1>1, <1>2, <1>4, <2>1, ReturnedFits
<1>13. CASE Drops(th)
  BY <1>1, <1>13 DEF Drops
<1>14. QED
  BY <1>7, <1>8, <1>9, <1>10, <1>11, <1>12, <1>13 DEF Moves

\* A call that has a service, or may make it, is in the provider where its caller
\* looks for that service.
LEMMA FrameAtHome ==
  ASSUME NEW th, NEW s, NEW i, FrameFits(th, s, i), Registered(s[i].type, s[i].prov)
  PROVE  s[i].prov = Home(s[i].type, Caller(th, s, i))
  BY DEF FrameFits, Home

LEMMA HomeInScopes ==
  ASSUME NEW p \in Scopes, NEW type
  PROVE  Home(type, p) \in Scopes
  BY DEF Home, Scopes

LEMMA DepsInTypes ==
  ASSUME NEW f \in Frames, NEW m \in 1 .. Asked(f)
  PROVE  Deps[f.type][m] \in Types
<1>1. f.todo \in Seq(Types) /\ Deps[f.type] \in Seq(Types)
  BY ServicesAssumption DEF Frames
<1>2. Len(f.todo) \in Nat /\ Len(Deps[f.type]) \in Nat
  BY <1>1, LenProperties
<1>3. m \in 1 .. Len(Deps[f.type])
  BY <1>2 DEF Asked
<1>4. QED
  BY <1>1, <1>3, ElementOfSeq

\* Nothing that is made is taken back.
LEMMA ServicesStay ==
  ASSUME Typed, [Next]_vars
  PROVE  \A p \in Scopes, type \in Types : Made(type, p) => Made(type, p)'
<1>1. ASSUME NEW th \in Threads, Moves(th), NEW p \in Scopes, NEW type \in Types,
             services[p][type] # NoInstance
      PROVE  services'[p][type] # NoInstance
  <2>1. CASE Publishes(th)
    <3>1. Top(th) \in Frames
      BY <2>1, StackTop DEF Publishes, Answers, Returned
    <3>2. NewInstance(Top(th)) # NoInstance
      BY <3>1, NewInstanceTyped
    <3>3. PICK q \in Scopes, d \in Types, x \in Instances :
             services' = [services EXCEPT ![q][d] = x] /\ x # NoInstance
      <4>1. Top(th).prov \in Scopes /\ Top(th).type \in Types
        BY <3>1 DEF Frames
      <4>2. NewInstance(Top(th)) \in Instances
        BY <3>1, NewInstanceTyped
      <4>3. services' = [services EXCEPT ![Top(th).prov][Top(th).type] = NewInstance(Top(th))]
        BY <2>1 DEF Publishes
      <4>4. QED
        BY <3>2, <4>1, <4>2, <4>3
    <3>4. QED
      BY <1>1, <3>3 DEF Typed
  <2>2. CASE ~Publishes(th)
    <3>1. UNCHANGED services
      BY <1>1, <2>2 DEF Moves, Enters, Asks, GoesUp, Begins, Waits, Finds, Drops
    <3>2. QED
      BY <1>1, <3>1
  <2>3. QED
    BY <2>1, <2>2
<1>2. ASSUME NEW p \in Scopes, NEW type \in Types, services[p][type] # NoInstance
      PROVE  services'[p][type] # NoInstance
  <2>1. CASE ScopeStep
    BY <1>2, <2>1, TypedScope
  <2>2. ASSUME NEW th \in Threads, ThreadMoved(th) PROVE services'[p][type] # NoInstance
    BY <1>1, <1>2, <2>2, ThreadMoves DEF ThreadMoved
  <2>3. QED
    BY <2>1, <2>2, NextCases
<1>3. QED
  BY <1>2, HomeInScopes DEF Made

LEMMA DepsKept ==
  ASSUME NEW s \in Seq(Frames), NEW i \in 1 .. Len(s), HasDeps(s, i),
         \A p \in Scopes, type \in Types : Made(type, p) => Made(type, p)'
  PROVE  HasDeps(s, i)'
<1>1. s[i] \in Frames
  BY ElementOfSeq
<1>2. s[i].prov \in Scopes
  BY <1>1 DEF Frames
<1>3. \A m \in 1 .. Asked(s[i]) : Deps[s[i].type][m] \in Types
  BY <1>1, DepsInTypes
<1>4. QED
  BY <1>2, <1>3 DEF HasDeps

\* The same for a call of another stack that has not become the last one.
LEMMA DepsMoved ==
  ASSUME NEW s \in Seq(Frames), NEW t, NEW i \in 1 .. Len(s), HasDeps(s, i), t[i] = s[i],
         i < Len(s) => i < Len(t),
         \A p \in Scopes, type \in Types : Made(type, p) => Made(type, p)'
  PROVE  HasDeps(t, i)'
<1>1. HasDeps(s, i)'
  BY DepsKept
<1>2. QED
  BY <1>1 DEF HasDeps

LEMMA DepsMoves ==
  ASSUME Typed, Typed', Shape, DepsMade, NEW th \in Threads, Moves(th),
         \A p \in Scopes, type \in Types : Made(type, p) => Made(type, p)'
  PROVE  DepsMade'
<1>1. PICK s, t, n, f : s = frames[th] /\ t = frames'[th] /\ n = Len(s) /\ f = Top(th)
  OBVIOUS
<1>2. /\ s \in Seq(Frames) /\ t \in Seq(Frames) /\ n \in Nat /\ Len(t) \in Nat
      /\ s # <<>> => n > 0 /\ f \in Frames /\ f = s[n] /\ Deps[f.type] \in Seq(Types)
  BY <1>1, StackTop, LenProperties DEF Typed
<1>3. Stack(th)
  BY DEF Moves, Enters, Asks, GoesUp, Begins, Waits, Finds, Publishes, Answers, Drops
<1>4. \A i \in 1 .. n : FrameFits(th, s, i) /\ HasDeps(s, i)
  BY <1>1 DEF Shape, DepsMade
<1>5. \A p \in Scopes, type \in Types : services'[p][type] # NoInstance => Registered(type, p)
  <2>1. CASE Publishes(th)
    <3>1. s # <<>> /\ f.at = "make" /\ f.keep /\ services' = [services EXCEPT ![f.prov][f.type] = NewInstance(f)]
      BY <1>1, <2>1 DEF Publishes, Answers, Returned
    <3>2. Registered(f.type, f.prov)
      BY <1>2, <1>4, <3>1 DEF FrameFits
    <3>3. QED
      BY <3>1, <3>2 DEF DepsMade, Typed
  <2>2. CASE ~Publishes(th)
    BY <2>2 DEF Moves, Enters, Asks, GoesUp, Begins, Waits, Finds, Drops, DepsMade
  <2>3. QED
    BY <2>1, <2>2
<1>6. SUFFICES ASSUME NEW u \in Threads, NEW v, v = frames'[u], NEW i \in 1 .. Len(v)
               PROVE  HasDeps(v, i)'
  BY <1>5, SMTT(30) DEF DepsMade, HasDeps, Made
<1>7. CASE u # th
  <2>1. v = frames[u] /\ v \in Seq(Frames) /\ HasDeps(v, i)
    BY <1>3, <1>6, <1>7 DEF Stack, Typed, DepsMade
  <2>2. QED
    BY <1>6, <2>1, DepsKept
<1>8. SUFFICES ASSUME u = th PROVE HasDeps(t, i)'
  BY <1>1, <1>6, <1>7
<1>9. i \in 1 .. Len(t)
  BY <1>1, <1>6, <1>8
<1>10. ASSUME i \in 1 .. n, t[i] = s[i], i < n => i < Len(t)
       PROVE  HasDeps(t, i)'
  BY <1>1, <1>2, <1>4, <1>10, DepsMoved
<1>11. CASE Enters(th)
  <2>1. PICK g \in Frames : /\ Len(t) = 1 /\ t[1] = g
                            /\ \/ g.at = "look" /\ g.keep
                               \/ g.at = "make" /\ ~g.keep /\ g.todo = Deps[g.type]
    BY <1>1, <1>11 DEF Enters, Started
  <2>2. Len(Deps[g.type]) \in Nat
    BY ServicesAssumption, LenProperties DEF Frames
  <2>3. i = 1 /\ (g.at = "make" => Asked(g) = 0)
    BY <1>9, <2>1, <2>2 DEF Asked
  <2>4. QED
    BY <2>1, <2>3 DEF HasDeps
<1>12. ASSUME NEW g, Changed(t, s, g), g.at = "make" => Asked(g) = 0 PROVE HasDeps(t, i)'
  <2>1. Len(t) = n /\ t[n] = g /\ \A j \in 1 .. n - 1 : t[j] = s[j]
    BY <1>1, <1>12 DEF Changed, Same
  <2>2. CASE i = n
    BY <1>12, <2>1, <2>2 DEF HasDeps
  <2>3. CASE i # n
    <3>1. i \in 1 .. n - 1
      BY <1>2, <1>9, <2>1, <2>3
    <3>2. QED
      BY <1>2, <1>10, <2>1, <3>1
  <2>4. QED
    BY <2>2, <2>3
<1>13. CASE Asks(th) \/ GoesUp(th)
  <2>1. PICK g : /\ Changed(t, s, g)
                 /\ f.at = "look" /\ (g = [f EXCEPT !.at = "lock"] \/ g = [f EXCEPT !.prov = App])
    BY <1>1, <1>13 DEF Asks, GoesUp
  <2>2. f \in Frames
    BY <1>2, <2>1 DEF Changed
  <2>3. g.at # "make"
    BY <2>1, <2>2 DEF Frames
  <2>4. QED
    BY <1>12, <2>1, <2>3
<1>14. CASE Begins(th)
  <2>1. PICK g : Changed(t, s, g) /\ g = [f EXCEPT !.at = "make", !.todo = Deps[f.type]]
    BY <1>1, <1>14 DEF Begins
  <2>2. f \in Frames /\ Len(Deps[f.type]) \in Nat
    BY <1>2, <2>1, LenProperties DEF Changed
  <2>3. Asked(g) = 0
    BY <2>1, <2>2 DEF Frames, Asked
  <2>4. QED
    BY <1>12, <2>1, <2>3
<1>15. CASE Waits(th)
  <2>1. PICK g, h : /\ g = [f EXCEPT !.todo = Tail(f.todo)] /\ h = Frame(Head(f.todo), f.prov)
                    /\ Called(t, s, g, h) /\ f.at = "make" /\ f.todo # <<>>
    BY <1>1, <1>15 DEF Waits
  <2>2. /\ Len(t) = n + 1 /\ t[n] = g /\ t[n + 1] = h /\ \A j \in 1 .. n - 1 : t[j] = s[j]
        /\ f \in Frames /\ f = s[n] /\ n > 0
    BY <1>1, <1>2, <2>1 DEF Called, Same
  <2>3. /\ g.at = "make" /\ g.type = f.type /\ g.prov = f.prov /\ Asked(g) = Asked(f) + 1
        /\ Asked(f) \in Int /\ h.at = "look"
    <3>1. f.todo \in Seq(Types) /\ Len(f.todo) \in Nat /\ Len(Deps[f.type]) \in Nat
      BY <1>2, <2>1, <2>2, LenProperties DEF Frames, Called
    <3>2. Len(Tail(f.todo)) = Len(f.todo) - 1
      BY <2>1, <3>1, HeadTailProperties
    <3>3. /\ g.at = "make" /\ g.type = f.type /\ g.prov = f.prov /\ g.todo = Tail(f.todo)
          /\ h.at = "look"
      BY <2>1, <2>2 DEF Frames, Frame
    <3>4. Len(g.todo) = Len(f.todo) - 1 /\ Deps[g.type] = Deps[f.type]
      BY <3>2, <3>3
    <3>5. Asked(g) = Asked(f) + 1 /\ Asked(f) \in Int
      BY <3>1, <3>4 DEF Asked
    <3>6. QED
      BY <3>3, <3>5
  <2>4. CASE i = n
    <3>1. HasDeps(s, n)'
      BY <1>1, <1>2, <1>4, <2>2, DepsKept
    <3>2. \A m \in 1 .. Asked(f) : Made(Deps[f.type][m], f.prov)'
      BY <1>1, <1>2, <2>1, <2>2, <3>1 DEF HasDeps
    <3>3. ASSUME NEW m \in 1 .. Asked(g), m # Asked(g) PROVE Made(Deps[g.type][m], g.prov)'
      <4>1. m \in 1 .. Asked(f)
        BY <2>3, <3>3
      <4>2. QED
        BY <2>3, <3>2, <4>1 DEF Made
    <3>4. n < Len(t)
      BY <1>2, <2>2
    <3>5. QED
      BY <2>2, <2>4, <3>3, <3>4 DEF HasDeps
  <2>5. CASE i = n + 1
    BY <2>2, <2>3, <2>5 DEF HasDeps
  <2>6. CASE i \in 1 .. n - 1
    BY <1>2, <1>10, <2>2, <2>6
  <2>7. QED
    BY <1>2, <1>9, <2>2, <2>4, <2>5, <2>6
<1>16. CASE Finds(th) \/ Publishes(th)
  <2>1. Returned(t, s) /\ s # <<>>
    BY <1>1, <1>16 DEF Finds, Publishes, Answers, Returned
  <2>2. Len(t) = n - 1 /\ t[i] = s[i] /\ i \in 1 .. n - 1
    BY <1>1, <1>2, <1>9, <2>1 DEF Returned, Same
  <2>3. CASE i < n - 1
    BY <1>2, <1>10, <2>2, <2>3
  <2>4. CASE i = n - 1
    <3>1. f.type \in Types /\ f.prov \in Scopes /\ services'[f.prov][f.type] # NoInstance
      <4>0. f \in Frames
        BY <1>2, <2>1
      <4>1. f.type \in Types /\ f.prov \in Scopes
        BY <4>0 DEF Frames
      <4>2. CASE Finds(th)
        BY <1>1, <4>1, <4>2 DEF Finds, Found
      <4>3. CASE Publishes(th)
        <5>1. services' = [services EXCEPT ![f.prov][f.type] = NewInstance(f)]
              /\ NewInstance(f) # NoInstance
          BY <1>1, <1>2, <2>1, <4>3, NewInstanceTyped DEF Publishes
        <5>2. QED
          BY <4>1, <5>1 DEF Typed
      <4>4. QED
        BY <1>16, <4>2, <4>3
    <3>2. /\ FrameFits(th, s, n) /\ FrameFits(th, s, i) /\ HasDeps(s, i)'
          /\ i < Len(s) /\ i + 1 = n
      BY <1>1, <1>2, <1>4, <2>2, <2>4, DepsKept
    <3>3. f.type = Deps[s[i].type][Asked(s[i])]
      BY <1>2, <2>1, <3>2 DEF FrameFits
    <3>4. Registered(f.type, f.prov)
      BY <1>5, <3>1
    <3>5. Caller(th, s, n) = s[i].prov
      BY <1>2, <2>2, <3>2 DEF Caller
    <3>6. f.prov = Home(f.type, s[i].prov)
      BY <1>2, <2>1, <3>2, <3>4, <3>5, FrameAtHome
    <3>7. Made(Deps[s[i].type][Asked(s[i])], s[i].prov)'
      BY <3>1, <3>3, <3>6 DEF Made
    <3>8. QED
      BY <2>2, <3>2, <3>7 DEF HasDeps
  <2>5. QED
    BY <1>2, <2>2, <2>3, <2>4
<1>17. CASE Drops(th)
  <2>1. t = <<>>
    BY <1>1, <1>17 DEF Drops
  <2>2. QED
    BY <1>9, <2>1
<1>18. QED
  BY <1>11, <1>13, <1>14, <1>15, <1>16, <1>17 DEF Moves

-----------------------------------------------------------------------------
(***************************************************************************)
(* Scopes.                                                                 *)
(***************************************************************************)
LEMMA ScopesOfThreads ==
  ASSUME NEW th \in Threads
  PROVE  ScopeOf[th] \in Scopes /\ (ScopeOf[th] # App => ScopeOf[th] \in Requests) /\ App \in Scopes
  BY ServicesAssumption DEF Scopes

\* The scope of the application is open while anybody works below it.
LEMMA AppIsOpen ==
  ASSUME Nested, Shape, Typed, NEW th \in Threads, frames[th] # <<>>, NEW i \in 1 .. Len(frames[th])
  PROVE  phase[frames[th][i].prov] \in {"opening", "open"}
<1>1. phase[ScopeOf[th]] \in {"opening", "open"}
  BY DEF Nested
<1>2. ScopeOf[th] # App => phase[App] = "open"
  BY <1>1, ScopesOfThreads DEF Nested
<1>3. frames[th][i].prov \in {ScopeOf[th], App}
  BY DEF Shape, FrameFits
<1>4. QED
  BY <1>1, <1>2, <1>3

LEMMA NestedMoves ==
  ASSUME Typed, Nested, NEW th \in Threads, Moves(th)
  PROVE  Nested'
<1>1. ScopeOf \in [Threads -> Scopes]
  BY ServicesAssumption
<1>2. Stack(th)
  BY DEF Moves, Enters, Asks, GoesUp, Begins, Waits, Finds, Publishes, Answers, Drops
<1>3. CASE Enters(th)
  <2>1. UNCHANGED phase /\ frames[th] = <<>>
    BY <1>3 DEF Enters, Started
  <2>2. phase[ScopeOf[th]] \in {"opening", "open"}
    BY <1>3 DEF Enters
  <2>3. phase[ScopeOf[th]] = "opening" =>
           \A u \in Threads : ScopeOf[u] = ScopeOf[th] => frames[u] = <<>>
    BY <1>3 DEF Enters
  <2>4. \A u \in Threads : u # th => frames'[u] = frames[u]
    BY <1>2 DEF Stack
  <2>5. \A u \in Threads : frames'[u] # <<>> => phase'[ScopeOf[u]] \in {"opening", "open"}
    BY <2>1, <2>2, <2>4 DEF Nested
  <2>6. \A u, v \in Threads :
          phase'[ScopeOf[u]] = "opening" /\ ScopeOf[u] = ScopeOf[v]
          /\ frames'[u] # <<>> /\ frames'[v] # <<>> => u = v
    BY <2>1, <2>3, <2>4 DEF Nested
  <2>7. QED
    BY <2>1, <2>5, <2>6 DEF Nested
<1>4. ASSUME frames[th] # <<>>, UNCHANGED phase PROVE Nested'
  <2>1. \A u \in Threads : frames'[u] # <<>> => frames[u] # <<>>
    BY <1>2, <1>4 DEF Stack
  <2>2. QED
    BY <1>4, <2>1 DEF Nested
<1>5. CASE Asks(th) \/ GoesUp(th) \/ Begins(th) \/ Waits(th) \/ Finds(th) \/ Publishes(th)
  <2>1. frames[th] # <<>> /\ UNCHANGED phase
    BY <1>5 DEF Asks, GoesUp, Begins, Waits, Finds, Publishes, Answers, Changed, Called, Returned
  <2>2. QED
    BY <1>4, <2>1
<1>6. CASE Drops(th)
  <2>1. frames[th] # <<>> /\ frames'[th] = <<>>
    BY <1>6 DEF Drops
  <2>2. CASE UNCHANGED phase
    BY <1>4, <2>1, <2>2
  <2>3. CASE phase' # phase
    <3>1. phase[ScopeOf[th]] = "opening" /\ phase' = [phase EXCEPT ![ScopeOf[th]] = "closing"]
      BY <1>6, <2>3 DEF Drops, Raise
    <3>2. \A u \in Threads : frames'[u] # <<>> => frames[u] # <<>> /\ u # th
      BY <1>2, <2>1 DEF Stack
    <3>3. \A u \in Threads : frames'[u] # <<>> => ScopeOf[u] # ScopeOf[th]
      BY <2>1, <3>1, <3>2 DEF Nested
    <3>4. \A p \in Scopes : phase'[p] = IF p = ScopeOf[th] THEN "closing" ELSE phase[p]
      BY <3>1 DEF Typed
    <3>5. ASSUME NEW q \in Requests, phase'[q] \in {"opening", "open", "closing"}
          PROVE  phase'[App] = "open"
      <4>1. q \in Scopes /\ App \in Scopes /\ q # App
        BY ServicesAssumption DEF Scopes
      <4>2. phase[q] \in {"opening", "open", "closing"}
        BY <3>1, <3>4, <3>5, <4>1
      <4>3. phase[App] = "open"
        BY <4>2 DEF Nested
      <4>4. QED
        BY <3>1, <3>4, <4>1, <4>3
    <3>6. QED
      BY <1>1, <3>2, <3>3, <3>4, <3>5 DEF Nested
  <2>4. QED
    BY <2>2, <2>3
<1>7. QED
  BY <1>3, <1>5, <1>6 DEF Moves

LEMMA NestedScope ==
  ASSUME Typed, Nested, ScopeStep
  PROVE  Nested'
<1> USE DEF scopeVars, threadVars, vars
<1>1. UNCHANGED frames
  BY TypedScope
<1>2. CASE UNCHANGED phase
  BY <1>1, <1>2 DEF Nested
<1>3. ASSUME NEW p \in Scopes, NEW x, phase' = [phase EXCEPT ![p] = x], x # phase[p],
             x \in {"opening", "open", "closing", "closed"},
             x \in {"closing", "closed"} => \A th \in Threads : ScopeOf[th] = p => frames[th] = <<>>,
             x = "opening" => \A th \in Threads : ScopeOf[th] = p => frames[th] = <<>>,
             p # App /\ x # "closed" => phase[App] = "open",
             p = App /\ phase[App] = "open" => \A q \in Requests : phase[q] \in {"new", "closed"}
      PROVE  Nested'
  <2>1. \A q \in Scopes : phase'[q] = IF q = p THEN x ELSE phase[q]
    BY <1>3 DEF Typed
  <2>2. App \in Scopes /\ App \notin Requests /\ \A q \in Requests : q \in Scopes
    BY ServicesAssumption DEF Scopes
  <2>3. \A th \in Threads : ScopeOf[th] \in Scopes
    BY ScopesOfThreads
  <2>4. \A th \in Threads : frames[th] # <<>> => phase'[ScopeOf[th]] \in {"opening", "open"}
    BY <1>3, <2>1, <2>3 DEF Nested
  <2>5. \A th, u \in Threads :
          phase'[ScopeOf[th]] = "opening" /\ ScopeOf[th] = ScopeOf[u]
          /\ frames[th] # <<>> /\ frames[u] # <<>> => th = u
    BY <1>3, <2>1, <2>3 DEF Nested
  <2>6. \A q \in Requests : phase'[q] \in {"opening", "open", "closing"} => phase'[App] = "open"
    BY <1>3, <2>1, <2>2 DEF Nested
  <2>7. QED
    BY <1>1, <2>4, <2>5, <2>6 DEF Nested
<1>4. ASSUME NEW p \in Scopes, phase[p] \notin {"opening", "open"}, NEW th \in Threads, ScopeOf[th] = p
      PROVE  frames[th] = <<>>
  BY <1>4 DEF Nested
<1>5. ASSUME NEW p \in Scopes, p # App, phase[p] \in {"opening", "open", "closing"}
      PROVE  phase[App] = "open"
  BY <1>5 DEF Nested, Scopes
<1>6. ASSUME NEW p \in Scopes, OpenScope(p) PROVE Nested'
  BY <1>3, <1>4, <1>6 DEF OpenScope
<1>7. ASSUME NEW p \in Scopes, Opened(p) PROVE Nested'
  BY <1>3, <1>5, <1>7 DEF Opened
<1>8. ASSUME NEW p \in Scopes, CloseScope(p) PROVE Nested'
  BY <1>3, <1>5, <1>8 DEF CloseScope, Quiet
<1>9. ASSUME NEW p \in Scopes, CloseOne(p) PROVE Nested'
  BY <1>2, <1>3, <1>4, <1>9 DEF CloseOne
<1>10. QED
  BY <1>2, <1>6, <1>7, <1>8, <1>9 DEF ScopeStep, Over

LEMMA PublishedMoves ==
  ASSUME Typed, Shape, Nested, Published, NEW th \in Threads, Moves(th)
  PROVE  Published'
<1>1. ScopeOf \in [Threads -> Scopes]
  BY ServicesAssumption
<1>2. ASSUME ~Publishes(th)
      PROVE  UNCHANGED <<services, exits>> /\ \A p \in Scopes : phase'[p] = phase[p]
                \/ (phase[p] = "opening" /\ phase'[p] = "closing")
  BY <1>1, <1>2 DEF Moves, Enters, Asks, GoesUp, Begins, Waits, Finds, Drops, Raise, Typed
<1>3. CASE ~Publishes(th)
  BY <1>2, <1>3 DEF Published
<1>4. CASE Publishes(th)
  <2>1. frames[th] # <<>>
    BY <1>4 DEF Publishes, Answers, Returned
  <2>2. Top(th) \in Frames /\ NewInstance(Top(th)) \in Instances /\ NewInstance(Top(th)) # NoInstance
        /\ Top(th) = frames[th][Len(frames[th])] /\ Len(frames[th]) \in 1 .. Len(frames[th])
    BY <2>1, StackTop, NewInstanceTyped
  <2>3. PICK p \in Scopes, type \in Types, x \in Instances :
           /\ p = Top(th).prov /\ type = Top(th).type /\ x = NewInstance(Top(th))
    BY <2>2 DEF Frames
  <2>4. /\ exits' = [exits EXCEPT ![p] = Append(exits[p], x)]
        /\ services' = [services EXCEPT ![p][type] = x] /\ UNCHANGED phase
    BY <1>4, <2>3 DEF Publishes
  <2>5. x # NoInstance /\ x.type = type /\ phase[p] \in {"opening", "open"}
    <3>1. x.type = type
      BY <2>3 DEF NewInstance
    <3>2. phase[p] \in {"opening", "open"}
      BY <2>1, <2>2, <2>3, AppIsOpen
    <3>3. QED
      BY <2>2, <2>3, <3>1, <3>2
  <2>6. /\ exits[p] \in Seq(Instances) /\ Len(exits[p]) \in Nat
        /\ Len(exits'[p]) = Len(exits[p]) + 1 /\ exits'[p][Len(exits[p]) + 1] = x
        /\ \A k \in 1 .. Len(exits[p]) : exits'[p][k] = exits[p][k]
    <3>1. exits[p] \in Seq(Instances) /\ exits'[p] = Append(exits[p], x)
      BY <2>4 DEF Typed
    <3>2. QED
      BY <3>1, AppendProperties, LenProperties
  <2>7. \A q \in Scopes : q # p => exits'[q] = exits[q]
    BY <2>4 DEF Typed
  <2>8. \A q \in Scopes, d \in Types : services'[q][d] = IF q = p /\ d = type THEN x ELSE services[q][d]
    BY <2>4 DEF Typed
  <2>9. \A q \in Scopes : phase'[q] \in {"new", "closed"} => exits'[q] = <<>>
    BY <2>4, <2>5, <2>7 DEF Published
  <2>10. ASSUME NEW q \in Scopes, NEW d \in Types
         PROVE  /\ phase'[q] = "new" => services'[q][d] = NoInstance
                /\ phase'[q] \in {"opening", "open"} /\ services'[q][d] # NoInstance =>
                      \E k \in 1 .. Len(exits'[q]) : exits'[q][k].type = d
    <3>1. phase'[q] = "new" => services'[q][d] = NoInstance
      BY <2>4, <2>5, <2>8 DEF Published
    <3>2. ASSUME phase'[q] \in {"opening", "open"}, services'[q][d] # NoInstance
          PROVE  \E k \in 1 .. Len(exits'[q]) : exits'[q][k].type = d
      <4>1. CASE q = p /\ d = type
        BY <2>5, <2>6, <4>1
      <4>2. CASE q = p /\ d # type
        <5>1. PICK k \in 1 .. Len(exits[p]) : exits[p][k].type = d
          BY <2>4, <2>8, <3>2, <4>2 DEF Published
        <5>2. k \in 1 .. Len(exits'[p]) /\ exits'[p][k].type = d
          BY <2>6, <5>1
        <5>3. QED
          BY <4>2, <5>2
      <4>3. CASE q # p
        BY <2>4, <2>7, <2>8, <3>2, <4>3 DEF Published
      <4>4. QED
        BY <4>1, <4>2, <4>3
    <3>3. QED
      BY <3>1, <3>2
  <2>11. ASSUME NEW q \in Scopes, NEW k \in 1 .. Len(exits'[q])
         PROVE  services'[q][exits'[q][k].type] # NoInstance
    <3>1. CASE q = p /\ k = Len(exits[p]) + 1
      BY <2>3, <2>5, <2>6, <2>8, <3>1
    <3>2. CASE q = p /\ k # Len(exits[p]) + 1
      <4>1. k \in 1 .. Len(exits[p]) /\ exits'[p][k] = exits[p][k]
        BY <2>6, <2>11, <3>2
      <4>2. services[p][exits[p][k].type] # NoInstance /\ exits[p][k] \in Instances
        BY <2>6, <4>1, ElementOfSeq DEF Published
      <4>3. exits[p][k].type \in Types
        BY <4>2 DEF Instances
      <4>4. QED
        BY <2>5, <2>8, <3>2, <4>1, <4>2, <4>3
    <3>3. CASE q # p
      <4>1. k \in 1 .. Len(exits[q]) /\ exits'[q] = exits[q] /\ exits[q] \in Seq(Instances)
        BY <2>7, <2>11, <3>3 DEF Typed
      <4>2. services[q][exits[q][k].type] # NoInstance /\ exits[q][k] \in Instances
        BY <4>1, ElementOfSeq DEF Published
      <4>3. exits[q][k].type \in Types
        BY <4>2 DEF Instances
      <4>4. QED
        BY <2>8, <3>3, <4>1, <4>2, <4>3
    <3>4. QED
      BY <3>1, <3>2, <3>3
  <2>12. QED
    BY <2>9, <2>10, <2>11 DEF Published
<1>5. QED
  BY <1>3, <1>4

LEMMA PublishedScope ==
  ASSUME Typed, Published, ScopeStep
  PROVE  Published'
<1> USE DEF scopeVars, threadVars, vars
<1>1. UNCHANGED services
  BY TypedScope
<1>2. CASE UNCHANGED <<phase, exits>>
  BY <1>1, <1>2 DEF Published
<1>3. ASSUME NEW p \in Scopes, NEW x, phase' = [phase EXCEPT ![p] = x], UNCHANGED exits,
             x \in {"opening", "open", "closing", "closed"},
             phase[p] = "new" => x = "opening",
             x = "open" => phase[p] = "opening",
             x = "opening" => phase[p] = "new",
             x = "closed" => exits[p] = <<>>
      PROVE  Published'
  <2>1. \A q \in Scopes : phase'[q] = IF q = p THEN x ELSE phase[q]
    BY <1>3 DEF Typed
  <2>2. QED
    BY <1>1, <1>3, <2>1 DEF Published
<1>4. ASSUME NEW p \in Scopes, OpenScope(p) \/ Opened(p) \/ CloseScope(p) PROVE Published'
  BY <1>3, <1>4 DEF OpenScope, Opened, CloseScope
<1>5. ASSUME NEW p \in Scopes, CloseOne(p) PROVE Published'
  <2>1. CASE exits[p] = <<>>
    BY <1>3, <1>5, <2>1 DEF CloseOne
  <2>2. CASE exits[p] # <<>>
    <3>1. /\ exits' = [exits EXCEPT ![p] = Front(exits[p])] /\ UNCHANGED phase /\ phase[p] = "closing"
          /\ exits[p] \in Seq(Instances)
      BY <1>5, <2>2 DEF CloseOne, Typed
    <3>2. /\ Len(exits[p]) \in Nat /\ Len(exits'[p]) = Len(exits[p]) - 1
          /\ \A k \in 1 .. Len(exits[p]) - 1 : exits'[p][k] = exits[p][k]
      <4>1. /\ Len(exits[p]) \in Nat /\ Len(Front(exits[p])) = Len(exits[p]) - 1
            /\ \A k \in 1 .. Len(exits[p]) - 1 : Front(exits[p])[k] = exits[p][k]
        BY <2>2, <3>1, FrontAndLast
      <4>2. exits'[p] = Front(exits[p])
        BY <3>1 DEF Typed
      <4>3. QED
        BY <4>1, <4>2
    <3>3. \A q \in Scopes : q # p => exits'[q] = exits[q]
      BY <3>1 DEF Typed
    <3>4. ASSUME NEW q \in Scopes, NEW k \in 1 .. Len(exits'[q])
          PROVE  services[q][exits'[q][k].type] # NoInstance
      <4>1. k \in 1 .. Len(exits[q]) /\ exits'[q][k] = exits[q][k]
        BY <3>2, <3>3, <3>4
      <4>2. QED
        BY <4>1 DEF Published
    <3>5. QED
      BY <1>1, <3>1, <3>3, <3>4 DEF Published
  <2>3. QED
    BY <2>1, <2>2
<1>6. QED
  BY <1>2, <1>4, <1>5 DEF ScopeStep, Over

\* ScopeInv holds initially and every step keeps it.
LEMMA ScopeInvInit == Init => ScopeInv
<1> SUFFICES ASSUME Init PROVE ScopeInv
  OBVIOUS
<1>1. ScopeOf \in [Threads -> Scopes] /\ App \in Scopes /\ \A q \in Requests : q \in Scopes
  BY ServicesAssumption DEF Scopes
<1>2. <<>> \in Seq(Frames) /\ <<>> \in Seq(Instances) /\ Len(<<>>) = 0
  OBVIOUS
<1>3. Typed
  BY <1>1, <1>2 DEF Init, Typed
<1>4. Shape /\ DepsMade
  BY DEF Init, Shape, DepsMade
<1>5. Nested
  BY <1>1 DEF Init, Nested
<1>6. Published
  BY <1>2 DEF Init, Published
<1>7. QED
  BY <1>3, <1>4, <1>5, <1>6 DEF ScopeInv

LEMMA ScopeInvNext ==
  ASSUME ScopeInv, [Next]_vars
  PROVE  ScopeInv'
<1> USE DEF ScopeInv
<1>1. Typed' /\ \A p \in Scopes, type \in Types : Made(type, p) => Made(type, p)'
  BY TypedNext, ServicesStay
<1>2. ASSUME NEW th \in Threads, ThreadMoved(th) PROVE ScopeInv'
  <2>1. Moves(th)
    BY <1>2, ThreadMoves DEF ThreadMoved
  <2>2. Shape' /\ DepsMade'
    BY <1>1, <2>1, ShapeMoves, DepsMoves
  <2>3. Nested' /\ Published'
    BY <2>1, NestedMoves, PublishedMoves
  <2>4. QED
    BY <1>1, <2>2, <2>3
<1>3. CASE ScopeStep
  <2>1. UNCHANGED <<services, frames>>
    BY <1>3, TypedScope
  <2>2. Shape'
    BY <2>1 DEF Shape
  <2>3. DepsMade'
    BY <2>1 DEF DepsMade, HasDeps, Made
  <2>4. Nested' /\ Published'
    BY <1>3, NestedScope, PublishedScope
  <2>5. QED
    BY <1>1, <2>2, <2>3, <2>4
<1>4. QED
  BY <1>2, <1>3, NextCases

LEMMA ScopeInvariant == Spec => []ScopeInv
  BY ScopeInvInit, ScopeInvNext, PTL DEF Spec

-----------------------------------------------------------------------------
\* DependenciesOutlive, for one provider and with the bounds of its stack.
Outlive(p) ==
    \A k \in 1 .. Len(exits[p]) : \A d \in ToSet(Deps[exits[p][k].type]) :
        LET q == Home(d, p)
        IN \E j \in 1 .. Len(exits[q]) : exits[q][j].type = d /\ (q = p => j < k)

LEMMA OutliveMeans ==
  ASSUME Typed
  PROVE  DependenciesOutlive <=> \A p \in Scopes : Outlive(p)
<1>1. ASSUME NEW p \in Scopes PROVE DOMAIN exits[p] = 1 .. Len(exits[p])
  <2>1. exits[p] \in Seq(Instances)
    BY DEF Typed
  <2>2. QED
    BY <2>1, LenProperties
<1>2. ASSUME DependenciesOutlive, NEW p \in Scopes PROVE Outlive(p)
  <2>1. ASSUME NEW k \in 1 .. Len(exits[p]), NEW d \in ToSet(Deps[exits[p][k].type])
        PROVE  \E j \in 1 .. Len(exits[Home(d, p)]) :
                  exits[Home(d, p)][j].type = d /\ (Home(d, p) = p => j < k)
    <3>1. PICK j \in DOMAIN exits[Home(d, p)] :
             exits[Home(d, p)][j].type = d /\ (Home(d, p) = p => j < k)
      BY <1>1, <1>2, <2>1 DEF DependenciesOutlive
    <3>2. QED
      BY <1>1, <3>1, HomeInScopes
  <2>2. QED
    BY <2>1 DEF Outlive
<1>3. ASSUME \A p \in Scopes : Outlive(p) PROVE DependenciesOutlive
  <2>1. ASSUME NEW p \in Scopes, NEW k \in DOMAIN exits[p], NEW d \in ToSet(Deps[exits[p][k].type])
        PROVE  \E j \in DOMAIN exits[Home(d, p)] :
                  exits[Home(d, p)][j].type = d /\ (Home(d, p) = p => j < k)
    <3>1. PICK j \in 1 .. Len(exits[Home(d, p)]) :
             exits[Home(d, p)][j].type = d /\ (Home(d, p) = p => j < k)
      BY <1>1, <1>3, <2>1 DEF Outlive
    <3>2. QED
      BY <1>1, <3>1, HomeInScopes
  <2>2. QED
    BY <2>1 DEF DependenciesOutlive
<1>4. QED
  BY <1>2, <1>3

DepsOutlive == \A p \in Scopes : Outlive(p)

\* A service that is published is the last of its stack, and everything it asked
\* for is made where it is at home: in this stack, or in that of the application,
\* which is open as well.
LEMMA OutlivePublishes ==
  ASSUME ScopeInv, DepsOutlive, NEW th \in Threads, Publishes(th)
  PROVE  DepsOutlive'
<1> USE DEF ScopeInv
<1>1. PICK f : f = Top(th)
  OBVIOUS
<1>2. /\ f \in Frames /\ frames[th] \in Seq(Frames) /\ Deps[f.type] \in Seq(Types)
      /\ Len(frames[th]) \in Nat /\ Len(frames[th]) > 0 /\ f = frames[th][Len(frames[th])]
  BY <1>1, StackTop DEF Publishes, Answers, Returned
<1>3. f.prov \in Scopes /\ f.type \in Types /\ f.at = "make" /\ f.todo = <<>>
  BY <1>1, <1>2 DEF Frames, Publishes
<1>4. PICK p, n, x : p = f.prov /\ n = Len(exits[p]) /\ x = NewInstance(f)
  OBVIOUS
<1>5. /\ exits[p] \in Seq(Instances) /\ n \in Nat /\ exits'[p] = Append(exits[p], x)
      /\ x \in Instances /\ x.type = f.type /\ p \in Scopes
      /\ \A q \in Scopes : q # p => exits'[q] = exits[q]
  <2>1. exits' = [exits EXCEPT ![p] = Append(exits[p], x)]
    BY <1>1, <1>4 DEF Publishes
  <2>2. x \in Instances /\ x.type = f.type
    BY <1>2, <1>4, NewInstanceTyped DEF NewInstance
  <2>3. QED
    BY <1>3, <1>4, <2>1, <2>2, LenProperties DEF Typed
<1>6. /\ Len(exits'[p]) = n + 1 /\ exits'[p][n + 1] = x
      /\ \A k \in 1 .. n : exits'[p][k] = exits[p][k]
  BY <1>4, <1>5, AppendProperties
<1>7. \A q \in Scopes : \A j \in 1 .. Len(exits[q]) :
         j \in 1 .. Len(exits'[q]) /\ exits'[q][j] = exits[q][j]
  BY <1>4, <1>5, <1>6, SMTT(30)
<1>8. ASSUME NEW d \in ToSet(Deps[f.type])
      PROVE  \E j \in 1 .. Len(exits[Home(d, p)]) : exits[Home(d, p)][j].type = d
  <2>1. PICK m \in 1 .. Len(Deps[f.type]) : d = Deps[f.type][m]
    BY <1>2, <1>8, LenProperties DEF ToSet
  <2>2. d \in Types /\ Asked(f) = Len(Deps[f.type])
    <3>1. Len(f.todo) = 0 /\ Len(Deps[f.type]) \in Nat
      BY <1>2, <1>3, LenProperties
    <3>2. QED
      BY <1>2, <2>1, <3>1, ElementOfSeq DEF Asked
  <2>3. HasDeps(frames[th], Len(frames[th])) /\ FrameFits(th, frames[th], Len(frames[th]))
    BY <1>2 DEF DepsMade, Shape
  <2>4. Made(d, p)
    BY <1>2, <1>3, <1>4, <2>1, <2>2, <2>3 DEF HasDeps
  <2>5. PICK q \in Scopes : q = Home(d, p) /\ q \in {p, App}
    BY <1>5, HomeInScopes DEF Home
  <2>6. frames[th] # <<>> /\ Len(frames[th]) \in 1 .. Len(frames[th])
    BY <1>2
  <2>7. phase[p] \in {"opening", "open"} /\ p \in {ScopeOf[th], App}
    BY <1>2, <1>4, <2>3, <2>6, AppIsOpen DEF FrameFits
  <2>8. phase[q] \in {"opening", "open"}
    <3>1. CASE p = App
      BY <2>5, <2>7, <3>1
    <3>2. CASE p # App
      BY <2>5, <2>7, <3>2, ScopesOfThreads DEF Nested
    <3>3. QED
      BY <3>1, <3>2
  <2>9. services[q][d] # NoInstance
    BY <2>4, <2>5 DEF Made
  <2>10. QED
    BY <2>2, <2>5, <2>8, <2>9 DEF Published
<1>9. SUFFICES ASSUME NEW q \in Scopes, NEW k \in 1 .. Len(exits'[q]),
                      NEW d \in ToSet(Deps[exits'[q][k].type])
               PROVE  \E j \in 1 .. Len(exits'[Home(d, q)]) :
                         exits'[Home(d, q)][j].type = d /\ (Home(d, q) = q => j < k)
  BY DEF DepsOutlive, Outlive
<1>10. PICK r \in Scopes : r = Home(d, q)
  BY HomeInScopes
<1>11. CASE q = p /\ k = n + 1
  <2>1. d \in ToSet(Deps[f.type])
    BY <1>5, <1>6, <1>11
  <2>2. PICK j \in 1 .. Len(exits[r]) : exits[r][j].type = d
    BY <1>8, <1>10, <1>11, <2>1
  <2>3. r = q => j < k
    BY <1>4, <1>5, <1>11, <2>2
  <2>4. QED
    BY <1>7, <1>10, <2>2, <2>3
<1>12. CASE ~(q = p /\ k = n + 1)
  <2>1. k \in 1 .. Len(exits[q]) /\ exits'[q][k] = exits[q][k]
    BY <1>4, <1>5, <1>6, <1>9, <1>12, SMTT(30)
  <2>2. d \in ToSet(Deps[exits[q][k].type])
    BY <2>1
  <2>3. PICK j \in 1 .. Len(exits[r]) : exits[r][j].type = d /\ (r = q => j < k)
    BY <1>10, <2>1, <2>2 DEF DepsOutlive, Outlive
  <2>4. QED
    BY <1>7, <1>10, <2>3
<1>13. QED
  BY <1>11, <1>12

\* A stack loses its last service, on which nothing below it depends; and the
\* stack of the application loses one only when those of the requests are empty.
LEMMA OutliveCloses ==
  ASSUME ScopeInv, DepsOutlive, NEW p \in Scopes, CloseOne(p)
  PROVE  DepsOutlive'
<1> USE DEF ScopeInv
<1>1. CASE UNCHANGED exits
  BY <1>1 DEF DepsOutlive, Outlive
<1>2. CASE exits[p] # <<>>
  <2>1. exits' = [exits EXCEPT ![p] = Front(exits[p])] /\ phase[p] = "closing"
    BY <1>2 DEF CloseOne
  <2>2. PICK n : n = Len(exits[p])
    OBVIOUS
  <2>3. /\ n \in Nat /\ Len(exits'[p]) = n - 1 /\ \A k \in 1 .. n - 1 : exits'[p][k] = exits[p][k]
        /\ \A q \in Scopes : q # p => exits'[q] = exits[q]
    <3>1. exits[p] \in Seq(Instances) /\ exits'[p] = Front(exits[p])
          /\ \A q \in Scopes : q # p => exits'[q] = exits[q]
      BY <2>1 DEF Typed
    <3>2. QED
      BY <1>2, <2>2, <3>1, FrontAndLast
  <2>4. SUFFICES ASSUME NEW q \in Scopes, NEW k \in 1 .. Len(exits'[q]),
                        NEW d \in ToSet(Deps[exits'[q][k].type])
                 PROVE  \E j \in 1 .. Len(exits'[Home(d, q)]) :
                           exits'[Home(d, q)][j].type = d /\ (Home(d, q) = q => j < k)
    BY DEF DepsOutlive, Outlive
  <2>5. PICK r \in Scopes : r = Home(d, q) /\ r \in {q, App}
    BY HomeInScopes DEF Home
  <2>6. k \in 1 .. Len(exits[q]) /\ exits'[q][k] = exits[q][k] /\ (q = p => k <= n - 1)
    BY <2>2, <2>3, <2>4
  <2>7. d \in ToSet(Deps[exits[q][k].type])
    BY <2>6
  <2>8. PICK j \in 1 .. Len(exits[r]) : exits[r][j].type = d /\ (r = q => j < k)
    BY <2>5, <2>6, <2>7 DEF DepsOutlive, Outlive
  <2>9. CASE r # p
    BY <2>3, <2>5, <2>8, <2>9
  <2>10. CASE r = p /\ q = p
    BY <2>2, <2>3, <2>5, <2>6, <2>8, <2>10, SMTT(30)
  <2>11. CASE r = p /\ q # p
    <3>1. p = App /\ q \in Requests
      BY <2>5, <2>11 DEF Scopes
    <3>2. phase[q] \notin {"opening", "open", "closing"} /\ phase[q] \in {"new", "opening", "open", "closing", "closed"}
      BY <2>1, <3>1 DEF Nested, Typed
    <3>3. exits[q] = <<>>
      BY <3>2 DEF Published
    <3>4. QED
      BY <2>6, <3>3
  <2>12. QED
    BY <2>9, <2>10, <2>11
<1>3. QED
  BY <1>1, <1>2 DEF CloseOne

LEMMA OutliveNext ==
  ASSUME ScopeInv, DepsOutlive, [Next]_vars
  PROVE  DepsOutlive'
<1>1. ASSUME UNCHANGED exits PROVE DepsOutlive'
  BY <1>1 DEF DepsOutlive, Outlive
<1>2. ASSUME NEW th \in Threads, ThreadMoved(th) PROVE DepsOutlive'
  <2>1. Moves(th)
    BY <1>2, ThreadMoves DEF ThreadMoved, ScopeInv
  <2>2. CASE Publishes(th)
    BY <2>2, OutlivePublishes
  <2>3. CASE ~Publishes(th)
    BY <1>1, <2>1, <2>3 DEF Moves, Enters, Asks, GoesUp, Begins, Waits, Finds, Drops
  <2>4. QED
    BY <2>2, <2>3
<1>3. CASE ScopeStep
  <2>1. CASE \E p \in Scopes : CloseOne(p)
    BY <2>1, OutliveCloses
  <2>2. CASE ~\E p \in Scopes : CloseOne(p)
    BY <1>1, <1>3, <2>2 DEF ScopeStep, OpenScope, Opened, CloseScope, Over, vars
  <2>3. QED
    BY <2>1, <2>2
<1>4. QED
  BY <1>2, <1>3, NextCases

\* As long as a service is open, so is everything it was made from: the exit stack
\* of ensure_scope closes a service before what its constructor resolved, and the
\* scope of the application closes after those of the requests.
THEOREM DependenciesStayOpen == Spec => []DependenciesOutlive
<1>1. Init => ScopeInv /\ DepsOutlive
  BY ScopeInvInit DEF Init, DepsOutlive, Outlive
<1>2. ScopeInv /\ DepsOutlive /\ [Next]_vars => (ScopeInv /\ DepsOutlive)'
  BY ScopeInvNext, OutliveNext
<1>3. ScopeInv /\ DepsOutlive => DependenciesOutlive
  BY OutliveMeans DEF ScopeInv, DepsOutlive
<1>4. QED
  BY <1>1, <1>2, <1>3, PTL DEF Spec

-----------------------------------------------------------------------------
\* The calls of a stack that hold the lock of p.
HeldIn(s, p) == {i \in 1 .. Len(s) : Holds(s[i]) /\ s[i].prov = p}

LEMMA HeldFinite ==
  ASSUME NEW s \in Seq(Frames), NEW p
  PROVE  IsFiniteSet(HeldIn(s, p)) /\ Cardinality(HeldIn(s, p)) \in Nat
<1>1. Len(s) \in Int
  BY LenProperties
<1>2. IsFiniteSet(1 .. Len(s)) /\ HeldIn(s, p) \in SUBSET (1 .. Len(s))
  BY <1>1, FS_Interval DEF HeldIn
<1>3. QED
  BY <1>2, FS_Subset, FS_CardinalityType

LEMMA HeldChanged ==
  ASSUME NEW s, NEW t, NEW g, NEW p, Len(s) \in Nat, Len(s) > 0, Changed(t, s, g)
  PROVE  HeldIn(t, p) = (HeldIn(s, p) \ {Len(s)}) \cup {i \in {Len(s)} : Holds(g) /\ g.prov = p}
<1>1. Len(t) = Len(s) /\ t[Len(s)] = g /\ \A i \in 1 .. Len(s) - 1 : t[i] = s[i]
  BY DEF Changed, Same
<1>2. \A i \in 1 .. Len(s) : i # Len(s) => i \in 1 .. Len(s) - 1
  OBVIOUS
<1>3. Len(s) \in 1 .. Len(s)
  OBVIOUS
<1>4. QED
  BY <1>1, <1>2, <1>3 DEF HeldIn

LEMMA HeldCalled ==
  ASSUME NEW s, NEW t, NEW g, NEW h, NEW p, Len(s) \in Nat, Len(s) > 0, Called(t, s, g, h),
         ~Holds(h)
  PROVE  HeldIn(t, p) = (HeldIn(s, p) \ {Len(s)}) \cup {i \in {Len(s)} : Holds(g) /\ g.prov = p}
<1>1. Len(t) = Len(s) + 1 /\ t[Len(s)] = g /\ t[Len(s) + 1] = h
      /\ \A i \in 1 .. Len(s) - 1 : t[i] = s[i]
  BY DEF Called, Same
<1>2. \A i \in 1 .. Len(s) + 1 : i # Len(s) /\ i # Len(s) + 1 => i \in 1 .. Len(s) - 1
  OBVIOUS
<1>3. Len(s) \in 1 .. Len(s) + 1 /\ \A i \in 1 .. Len(s) : i \in 1 .. Len(s) + 1 /\ i # Len(s) + 1
  OBVIOUS
<1>4. QED
  BY <1>1, <1>2, <1>3 DEF HeldIn

LEMMA HeldReturned ==
  ASSUME NEW s, NEW t, NEW p, Len(s) \in Nat, Len(s) > 0, Returned(t, s)
  PROVE  HeldIn(t, p) = HeldIn(s, p) \ {Len(s)}
<1>1. Len(t) = Len(s) - 1 /\ \A i \in 1 .. Len(s) - 1 : t[i] = s[i]
  BY DEF Returned, Same
<1>2. \A i : i \in 1 .. Len(s) - 1 <=> i \in 1 .. Len(s) /\ i # Len(s)
  OBVIOUS
<1>3. QED
  BY <1>1, <1>2 DEF HeldIn

LEMMA HeldMeans == \A th \in Threads, p \in Scopes : Held(th, p) = HeldIn(frames[th], p)
  BY DEF Held, HeldIn

\* Locked of one thread and one provider, given the calls and the lock.
LockFits(th, s, p, l) ==
    /\ l.depth >= 0 /\ (HeldIn(s, p) # {} => l.owner = th)
    /\ l.owner = th => Cardinality(HeldIn(s, p)) <= l.depth

LEMMA LockedMeans ==
  Locked <=> \A th \in Threads, p \in Scopes : LockFits(th, frames[th], p, lock[p])
  BY HeldMeans DEF Locked, LockFits

\* The calls of the thread that moves hold what they held, but for the top.
LEMMA LockOfMover ==
  ASSUME ScopeInv, NEW th \in Threads, NEW p \in Scopes, Moves(th),
         LockFits(th, frames[th], p, lock[p])
  PROVE  LockFits(th, frames'[th], p, lock'[p])
<1> USE DEF ScopeInv
<1>1. PICK s, t, n, f : s = frames[th] /\ t = frames'[th] /\ n = Len(s) /\ f = Top(th)
  OBVIOUS
<1>2. Stack(th)
  BY DEF Moves, Enters, Asks, GoesUp, Begins, Waits, Finds, Publishes, Answers, Drops
<1>3. /\ s \in Seq(Frames) /\ t \in Seq(Frames) /\ n \in Nat
      /\ s # <<>> => n > 0 /\ f \in Frames /\ f = s[n]
  BY <1>1, <1>2, StackTop, LenProperties DEF Typed, Stack
<1>4. PICK H, l : H = HeldIn(s, p) /\ l = lock[p]
  OBVIOUS
<1>5. /\ IsFiniteSet(H) /\ Cardinality(H) \in Nat /\ l.depth \in Int
      /\ l.depth >= 0 /\ (H # {} => l.owner = th)
      /\ l.owner = th => Cardinality(H) <= l.depth
  BY <1>1, <1>3, <1>4, HeldFinite DEF LockFits, Typed
<1>6. th # Nobody /\ \A q \in Scopes : q # p => p # q
  BY ServicesAssumption
<1>7. s # <<>> => (n \in H <=> Holds(f) /\ f.prov = p)
  BY <1>1, <1>3, <1>4 DEF HeldIn
<1>8. Cardinality({}) = 0
  BY FS_EmptySet
<1>9. ASSUME HeldIn(t, p) = {}, lock'[p].depth \in Int, lock'[p].depth >= 0
      PROVE  LockFits(th, t, p, lock'[p])
  BY <1>8, <1>9 DEF LockFits
<1>10. ASSUME UNCHANGED lock, HeldIn(t, p) = H PROVE LockFits(th, t, p, lock'[p])
  BY <1>1, <1>4, <1>10 DEF LockFits
<1>11. CASE Enters(th)
  <2>1. PICK g : s = <<>> /\ Len(t) = 1 /\ t[1] = g /\ (g.at = "look" \/ ~g.keep)
    BY <1>1, <1>11 DEF Enters, Started
  <2>2. HeldIn(t, p) = {} /\ H = {}
    BY <1>1, <1>3, <1>4, <2>1 DEF HeldIn, Holds
  <2>3. QED
    BY <1>1, <1>10, <1>11, <2>2 DEF Enters
<1>12. CASE Asks(th) \/ GoesUp(th)
  <2>1. PICK g : Changed(t, s, g) /\ s # <<>> /\ ~Holds(g) /\ ~Holds(f) /\ UNCHANGED lock
    <3>1. CASE Asks(th)
      <4>1. Changed(t, s, [f EXCEPT !.at = "lock"]) /\ s # <<>> /\ f.at = "look" /\ UNCHANGED lock
        BY <1>1, <3>1 DEF Asks, Changed
      <4>2. [f EXCEPT !.at = "lock"].at = "lock"
        BY <1>3, <4>1 DEF Frames
      <4>3. QED
        BY <4>1, <4>2 DEF Holds
    <3>2. CASE GoesUp(th)
      <4>1. Changed(t, s, [f EXCEPT !.prov = App]) /\ s # <<>> /\ f.at = "look" /\ UNCHANGED lock
        BY <1>1, <3>2 DEF GoesUp, Changed
      <4>2. [f EXCEPT !.prov = App].at = "look"
        BY <1>3, <4>1 DEF Frames
      <4>3. QED
        BY <4>1, <4>2 DEF Holds
    <3>3. QED
      BY <1>12, <3>1, <3>2
  <2>2. HeldIn(t, p) = (H \ {n}) \cup {i \in {n} : Holds(g) /\ g.prov = p}
    BY <1>1, <1>3, <1>4, <2>1, HeldChanged
  <2>3. HeldIn(t, p) = H
    BY <1>7, <2>1, <2>2
  <2>4. QED
    BY <1>1, <1>10, <2>1, <2>3
<1>13. CASE Begins(th)
  <2>1. PICK g : g = [f EXCEPT !.at = "make", !.todo = Deps[f.type]]
    OBVIOUS
  <2>2. /\ Changed(t, s, g) /\ s # <<>> /\ f.at = "lock" /\ Free(f.prov, th) /\ TakeLock(f.prov, th)
    BY <1>1, <1>13, <2>1 DEF Begins, Changed
  <2>3. ~Holds(f) /\ g.prov = f.prov /\ f.prov \in Scopes
    BY <1>3, <2>1, <2>2 DEF Holds, Frames
  <2>4. HeldIn(t, p) = (H \ {n}) \cup {i \in {n} : Holds(g) /\ g.prov = p}
    BY <1>1, <1>3, <1>4, <2>2, HeldChanged
  <2>5. n \notin H
    BY <1>7, <2>2, <2>3
  <2>6. CASE p # f.prov
    <3>1. HeldIn(t, p) = H
      BY <2>3, <2>4, <2>5, <2>6
    <3>2. lock'[p] = l
      BY <1>4, <2>2, <2>6 DEF TakeLock, Typed
    <3>3. QED
      BY <1>1, <1>5, <3>1, <3>2 DEF LockFits
  <2>7. CASE p = f.prov
    <3>1. HeldIn(t, p) \in {H, H \cup {n}} /\ IsFiniteSet(HeldIn(t, p))
      <4>1. HeldIn(t, p) \in {H, H \cup {n}}
        BY <2>4, <2>5
      <4>2. QED
        BY <1>5, <4>1, FS_AddElement
    <3>2. Cardinality(HeldIn(t, p)) <= Cardinality(H) + 1
      <4>1. Cardinality(H \cup {n}) = Cardinality(H) + 1
        BY <1>5, <2>5, FS_AddElement
      <4>2. QED
        BY <1>5, <3>1, <4>1
    <3>3. lock'[p] = [owner |-> th, depth |-> l.depth + 1]
      BY <1>4, <2>2, <2>7 DEF TakeLock, Typed
    <3>4. Cardinality(H) <= l.depth
      <4>1. CASE l.owner = th
        BY <1>5, <4>1
      <4>2. CASE l.owner # th
        BY <1>5, <1>8, <4>2
      <4>3. QED
        BY <4>1, <4>2
    <3>5. Cardinality(HeldIn(t, p)) <= lock'[p].depth /\ lock'[p].owner = th /\ lock'[p].depth >= 0
      <4>1. Cardinality(HeldIn(t, p)) \in Nat
        BY <1>3, HeldFinite
      <4>2. lock'[p].depth = l.depth + 1 /\ lock'[p].owner = th
        BY <3>3
      <4>3. QED
        BY <1>5, <3>2, <3>4, <4>1, <4>2
    <3>6. QED
      BY <1>1, <3>5 DEF LockFits
  <2>8. QED
    BY <2>6, <2>7
<1>14. CASE Waits(th)
  <2>1. PICK g, h : g = [f EXCEPT !.todo = Tail(f.todo)] /\ h = Frame(Head(f.todo), f.prov)
    OBVIOUS
  <2>2. Called(t, s, g, h) /\ s # <<>> /\ UNCHANGED lock
    BY <1>1, <1>14, <2>1 DEF Waits, Called
  <2>3. g.at = f.at /\ g.prov = f.prov /\ g.keep = f.keep /\ ~Holds(h)
    BY <1>3, <2>1, <2>2 DEF Frames, Frame, Holds
  <2>4. HeldIn(t, p) = (H \ {n}) \cup {i \in {n} : Holds(g) /\ g.prov = p}
    BY <1>1, <1>3, <1>4, <2>2, <2>3, HeldCalled
  <2>5. Holds(g) /\ g.prov = p <=> n \in H
    BY <1>7, <2>2, <2>3 DEF Holds
  <2>6. QED
    BY <1>1, <1>10, <2>2, <2>4, <2>5
<1>15. CASE Finds(th)
  <2>1. Returned(t, s) /\ s # <<>> /\ f.at # "make" /\ UNCHANGED lock
    BY <1>1, <1>15 DEF Finds, Answers, Returned
  <2>2. HeldIn(t, p) = H \ {n} /\ n \notin H
    BY <1>1, <1>3, <1>4, <1>7, <2>1, HeldReturned DEF Holds
  <2>3. QED
    BY <1>1, <1>10, <2>1, <2>2
<1>16. CASE Publishes(th)
  <2>1. Returned(t, s) /\ s # <<>> /\ Holds(f) /\ f.prov \in Scopes
        /\ lock' = [lock EXCEPT ![f.prov] = Released(lock[f.prov])]
    BY <1>1, <1>3, <1>16 DEF Publishes, Answers, Returned, Holds, Frames
  <2>2. HeldIn(t, p) = H \ {n}
    BY <1>1, <1>3, <1>4, <2>1, HeldReturned
  <2>3. CASE p # f.prov
    <3>1. HeldIn(t, p) = H /\ lock'[p] = l
      BY <1>4, <1>7, <2>1, <2>2, <2>3 DEF Typed
    <3>2. QED
      BY <1>1, <1>5, <3>1 DEF LockFits
  <2>4. CASE p = f.prov
    <3>1. n \in H /\ lock'[p] = Released(l) /\ l.owner = th /\ Cardinality(H) <= l.depth
      BY <1>4, <1>5, <1>7, <2>1, <2>4 DEF Typed
    <3>2. Cardinality(H \ {n}) = Cardinality(H) - 1 /\ IsFiniteSet(H \ {n})
      BY <1>5, <3>1, FS_RemoveElement
    <3>3. Cardinality(H \ {n}) \in Nat
      BY <3>2, FS_CardinalityType
    <3>4. CASE l.depth = 1
      <4>1. Cardinality(H \ {n}) = 0
        BY <1>5, <3>1, <3>2, <3>3, <3>4
      <4>2. HeldIn(t, p) = {}
        BY <2>2, <3>2, <4>1, FS_EmptySet
      <4>3. lock'[p] = [owner |-> Nobody, depth |-> 0]
        BY <3>1, <3>4 DEF Released
      <4>4. lock'[p].depth = 0
        BY <4>3
      <4>5. QED
        BY <1>1, <1>9, <4>2, <4>4
    <3>5. CASE l.depth # 1
      <4>1. lock'[p] = [l EXCEPT !.depth = l.depth - 1]
        BY <3>1, <3>5 DEF Released
      <4>2. lock'[p].depth = l.depth - 1 /\ lock'[p].owner = th
        BY <1>4, <3>1, <4>1 DEF Typed
      <4>3. Cardinality(HeldIn(t, p)) <= lock'[p].depth /\ lock'[p].depth >= 0
        BY <1>5, <2>2, <3>1, <3>2, <3>3, <4>2
      <4>4. QED
        BY <1>1, <4>2, <4>3 DEF LockFits
    <3>6. QED
      BY <3>4, <3>5
  <2>5. QED
    BY <2>3, <2>4
<1>17. CASE Drops(th)
  <2>1. t = <<>> /\ HeldIn(t, p) = {}
    BY <1>1, <1>17 DEF Drops, HeldIn
  <2>2. lock'[p].depth \in Int /\ lock'[p].depth >= 0
    <3>1. lock'[p] = l \/ lock'[p] = [owner |-> Nobody, depth |-> 0]
      BY <1>4, <1>17 DEF Drops, Raise
    <3>2. QED
      BY <1>5, <3>1
  <2>3. QED
    BY <1>1, <1>9, <2>1, <2>2
<1>18. QED
  BY <1>11, <1>12, <1>13, <1>14, <1>15, <1>16, <1>17 DEF Moves

\* Only the thread that holds a lock, or finds it free, changes it.
LEMMA LockedMoves ==
  ASSUME ScopeInv, Locked, NEW th \in Threads, Moves(th)
  PROVE  Locked'
<1> USE DEF ScopeInv
<1>1. \A u \in Threads, p \in Scopes : LockFits(u, frames[u], p, lock[p])
  BY LockedMeans
<1>2. \A p \in Scopes : LockFits(th, frames'[th], p, lock'[p])
  BY <1>1, LockOfMover
<1>3. Stack(th) /\ Nobody \notin Threads
  BY ServicesAssumption DEF Moves, Enters, Asks, GoesUp, Begins, Waits, Finds, Publishes, Answers, Drops
<1>4. ASSUME NEW p \in Scopes
      PROVE  lock'[p] = lock[p] \/ (lock[p].owner \in {Nobody, th} /\ lock'[p].owner \in {Nobody, th})
  <2>1. PICK f : f = Top(th)
    OBVIOUS
  <2>2. CASE Begins(th)
    <3>1. lock[f.prov].owner \in {Nobody, th} /\ f.prov \in Scopes
          /\ lock' = [lock EXCEPT ![f.prov] = [owner |-> th, depth |-> lock[f.prov].depth + 1]]
      <4>1. frames[th] # <<>>
        BY <2>2 DEF Begins, Changed
      <4>2. QED
        BY <2>1, <2>2, <4>1, StackTop DEF Begins, Free, TakeLock, Frames
    <3>2. QED
      BY <3>1 DEF Typed
  <2>3. CASE Publishes(th)
    <3>1. f \in Frames /\ Holds(f) /\ f = frames[th][Len(frames[th])]
          /\ Len(frames[th]) \in Nat /\ Len(frames[th]) > 0
      BY <2>1, <2>3, StackTop DEF Publishes, Answers, Returned, Holds
    <3>2. Len(frames[th]) \in HeldIn(frames[th], f.prov) /\ f.prov \in Scopes
      BY <3>1 DEF HeldIn, Frames
    <3>3. lock[f.prov].owner = th
      BY <1>1, <3>2 DEF LockFits
    <3>4. lock' = [lock EXCEPT ![f.prov] = Released(lock[f.prov])]
      BY <2>1, <2>3 DEF Publishes
    <3>5. Released(lock[f.prov]).owner \in {Nobody, th}
      BY <3>2, <3>3 DEF Released, Typed
    <3>6. QED
      BY <3>2, <3>3, <3>4, <3>5 DEF Typed
  <2>4. CASE Drops(th)
    BY <2>4 DEF Drops, Raise
  <2>5. CASE Enters(th) \/ Asks(th) \/ GoesUp(th) \/ Waits(th) \/ Finds(th)
    BY <2>5 DEF Enters, Asks, GoesUp, Waits, Finds
  <2>6. QED
    BY <2>2, <2>3, <2>4, <2>5 DEF Moves
<1>5. SUFFICES ASSUME NEW u \in Threads, NEW p \in Scopes
               PROVE  LockFits(u, frames'[u], p, lock'[p])
  BY DEF Locked, Held, HeldIn, LockFits
<1>6. CASE u = th
  BY <1>2, <1>6
<1>7. CASE u # th
  <2>1. frames'[u] = frames[u]
    BY <1>3, <1>7 DEF Stack
  <2>2. CASE lock'[p] = lock[p]
    BY <1>1, <2>1, <2>2
  <2>3. CASE lock[p].owner \in {Nobody, th} /\ lock'[p].owner \in {Nobody, th}
    <3>1. lock[p].owner # u /\ lock'[p].owner # u
      BY <1>3, <1>7, <2>3
    <3>2. HeldIn(frames[u], p) = {}
      BY <1>1, <3>1 DEF LockFits
    <3>3. lock'[p].depth >= 0
      BY <1>2 DEF LockFits
    <3>4. QED
      BY <2>1, <3>1, <3>2, <3>3 DEF LockFits
  <2>4. QED
    BY <1>4, <2>2, <2>3
<1>8. QED
  BY <1>6, <1>7

-----------------------------------------------------------------------------
\* The lock of a provider is held by one thread.
LEMMA OneMaker ==
  ASSUME Locked, NEW th \in Threads, NEW u \in Threads, NEW p \in Scopes,
         Held(th, p) # {}, Held(u, p) # {}
  PROVE  th = u
  BY DEF Locked

\* A service that is about to be published is in no other call: not of another
\* thread, which would hold the same lock, nor of this one.
LEMMA PublishedIsMine ==
  ASSUME ScopeInv, Locked, Behind, NEW th \in Threads, Publishes(th),
         NEW u \in Threads, NEW i \in 1 .. Len(frames[u]), Holds(frames[u][i]),
         frames[u][i].prov = Top(th).prov, frames[u][i].type = Top(th).type
  PROVE  u = th /\ i = Len(frames[th])
<1> USE DEF ScopeInv
<1>1. PICK f, n : f = Top(th) /\ n = Len(frames[th])
  OBVIOUS
<1>2. /\ f \in Frames /\ Holds(f) /\ f.todo = <<>> /\ f = frames[th][n] /\ n \in Nat /\ n > 0
  BY <1>1, StackTop DEF Publishes, Answers, Returned, Holds
<1>3. n \in Held(th, f.prov) /\ i \in Held(u, f.prov) /\ f.prov \in Scopes
  BY <1>1, <1>2 DEF Held, Frames
<1>4. u = th
  BY <1>3, OneMaker
<1>5. CASE i < n
  <2>1. Len(f.todo) > Len(frames[th][i].todo)
        \/ (Len(f.todo) = Len(frames[th][i].todo) /\ n < Len(frames[th]))
    <3>1. i \in 1 .. Len(frames[th]) /\ n \in 1 .. Len(frames[th])
      BY <1>1, <1>2, <1>4
    <3>2. /\ Holds(frames[th][i]) /\ Holds(frames[th][n])
          /\ frames[th][i].type = frames[th][n].type /\ frames[th][i].prov = frames[th][n].prov
      BY <1>1, <1>2, <1>4
    <3>3. QED
      BY <1>2, <1>5, <3>1, <3>2 DEF Behind
  <2>2. frames[th][i] \in Frames
    BY <1>4, ElementOfSeq DEF Typed
  <2>3. Len(f.todo) = 0 /\ Len(frames[th][i].todo) \in Nat
    BY <1>2, <2>2, LenProperties DEF Frames
  <2>4. QED
    BY <1>1, <1>2, <2>1, <2>3
<1>6. QED
  BY <1>1, <1>2, <1>4, <1>5

LEMMA UnmadeMoves ==
  ASSUME ScopeInv, Locked, Unmade, Behind, Falsy = {}, NEW th \in Threads, Moves(th)
  PROVE  Unmade'
<1> USE DEF ScopeInv
<1>1. PICK s, t, n, f : s = frames[th] /\ t = frames'[th] /\ n = Len(s) /\ f = Top(th)
  OBVIOUS
<1>2. Stack(th)
  BY DEF Moves, Enters, Asks, GoesUp, Begins, Waits, Finds, Publishes, Answers, Drops
<1>3. /\ s \in Seq(Frames) /\ t \in Seq(Frames) /\ n \in Nat
      /\ s # <<>> => n > 0 /\ f \in Frames /\ f = s[n]
  BY <1>1, <1>2, StackTop, LenProperties DEF Typed, Stack
<1>4. ASSUME NEW u \in Threads, NEW i \in 1 .. Len(frames[u]), Holds(frames[u][i])
      PROVE  services[frames[u][i].prov][frames[u][i].type] = NoInstance
             /\ frames[u][i].prov \in Scopes /\ frames[u][i].type \in Types
  <2>1. frames[u][i] \in Frames
    BY ElementOfSeq DEF Typed
  <2>2. QED
    BY <1>4, <2>1 DEF Unmade, Frames
<1>5. ASSUME UNCHANGED services,
             \A i \in 1 .. Len(t) : Holds(t[i]) => services[t[i].prov][t[i].type] = NoInstance
      PROVE  Unmade'
  BY <1>1, <1>2, <1>4, <1>5 DEF Unmade, Stack
<1>6. \A i \in 1 .. n : Holds(s[i]) => services[s[i].prov][s[i].type] = NoInstance
  BY <1>1, <1>4
<1>7. CASE Enters(th)
  <2>1. PICK g : Len(t) = 1 /\ t[1] = g /\ ~Holds(g) /\ UNCHANGED services
    BY <1>1, <1>7 DEF Enters, Started, Holds
  <2>2. QED
    BY <1>5, <2>1
<1>8. ASSUME NEW g, Changed(t, s, g), UNCHANGED services,
             Holds(g) => services[g.prov][g.type] = NoInstance
      PROVE  Unmade'
  <2>1. Len(t) = n /\ t[n] = g /\ \A i \in 1 .. n - 1 : t[i] = s[i]
    BY <1>1, <1>8 DEF Changed, Same
  <2>2. \A i \in 1 .. n : i # n => i \in 1 .. n - 1
    BY <1>3
  <2>3. QED
    BY <1>5, <1>6, <1>8, <2>1, <2>2
<1>9. CASE Asks(th)
  <2>1. Changed(t, s, [f EXCEPT !.at = "lock"]) /\ s # <<>> /\ UNCHANGED services
    BY <1>1, <1>9 DEF Asks, Changed
  <2>2. ~Holds([f EXCEPT !.at = "lock"])
    BY <1>3, <2>1 DEF Frames, Holds
  <2>3. QED
    BY <1>8, <2>1, <2>2
<1>10. CASE GoesUp(th)
  <2>1. Changed(t, s, [f EXCEPT !.prov = App]) /\ s # <<>> /\ UNCHANGED services /\ f.at = "look"
    BY <1>1, <1>10 DEF GoesUp, Changed
  <2>2. ~Holds([f EXCEPT !.prov = App])
    BY <1>3, <2>1 DEF Frames, Holds
  <2>3. QED
    BY <1>8, <2>1, <2>2
<1>11. CASE Begins(th)
  <2>1. PICK g : g = [f EXCEPT !.at = "make", !.todo = Deps[f.type]]
    OBVIOUS
  <2>2. Changed(t, s, g) /\ s # <<>> /\ UNCHANGED services /\ ~Found(f.type, f.prov)
    BY <1>1, <1>11, <2>1 DEF Begins, Changed
  <2>3. services[g.prov][g.type] = NoInstance
    BY <1>3, <2>1, <2>2 DEF Frames, Found
  <2>4. QED
    BY <1>8, <2>2, <2>3
<1>12. CASE Waits(th)
  <2>1. PICK g, h : g = [f EXCEPT !.todo = Tail(f.todo)] /\ h = Frame(Head(f.todo), f.prov)
    OBVIOUS
  <2>2. Called(t, s, g, h) /\ s # <<>> /\ UNCHANGED services
    BY <1>1, <1>12, <2>1 DEF Waits, Called
  <2>3. g.at = f.at /\ g.prov = f.prov /\ g.type = f.type /\ g.keep = f.keep /\ ~Holds(h)
    BY <1>3, <2>1, <2>2 DEF Frames, Frame, Holds
  <2>4. Len(t) = n + 1 /\ t[n] = g /\ t[n + 1] = h /\ \A i \in 1 .. n - 1 : t[i] = s[i]
    BY <1>1, <2>2 DEF Called, Same
  <2>5. Holds(g) => services[g.prov][g.type] = NoInstance
    <3>1. n \in 1 .. n
      BY <1>3, <2>2
    <3>2. QED
      BY <1>3, <1>6, <2>2, <2>3, <3>1 DEF Holds
  <2>6. \A i \in 1 .. n + 1 : i = n \/ i = n + 1 \/ i \in 1 .. n - 1
    BY <1>3
  <2>7. \A i \in 1 .. n - 1 : i \in 1 .. n
    BY <1>3
  <2>8. QED
    BY <1>5, <1>6, <2>2, <2>3, <2>4, <2>5, <2>6, <2>7
<1>13. CASE Finds(th)
  <2>1. Returned(t, s) /\ UNCHANGED services
    BY <1>1, <1>13 DEF Finds, Answers
  <2>2. Len(t) = n - 1 /\ \A i \in 1 .. n - 1 : t[i] = s[i] /\ i \in 1 .. n
    BY <1>1, <1>3, <2>1 DEF Returned, Same
  <2>3. QED
    BY <1>5, <1>6, <2>1, <2>2
<1>14. CASE Drops(th)
  <2>1. t = <<>> /\ UNCHANGED services
    BY <1>1, <1>14 DEF Drops
  <2>2. QED
    BY <1>5, <2>1
<1>15. CASE Publishes(th)
  <2>1. Returned(t, s) /\ s # <<>>
    BY <1>1, <1>15 DEF Publishes, Answers, Returned
  <2>2. Len(t) = n - 1 /\ \A i \in 1 .. n - 1 : t[i] = s[i] /\ i \in 1 .. n /\ i # n
    BY <1>1, <1>3, <2>1 DEF Returned, Same
  <2>3. services' = [services EXCEPT ![f.prov][f.type] = NewInstance(f)]
    BY <1>1, <1>15 DEF Publishes
  <2>4. SUFFICES ASSUME NEW u \in Threads, NEW i \in 1 .. Len(frames'[u]), Holds(frames'[u][i])
                 PROVE  services'[frames'[u][i].prov][frames'[u][i].type] = NoInstance
    BY DEF Unmade
  <2>5. i \in 1 .. Len(frames[u]) /\ frames'[u][i] = frames[u][i] /\ (u = th => i # n)
    <3>1. CASE u = th
      BY <1>1, <2>2, <2>4, <3>1
    <3>2. CASE u # th
      BY <1>2, <2>4, <3>2 DEF Stack
    <3>3. QED
      BY <3>1, <3>2
  <2>6. PICK g : g = frames[u][i]
    OBVIOUS
  <2>7. ~(g.prov = f.prov /\ g.type = f.type)
    BY <1>1, <1>15, <2>4, <2>5, <2>6, PublishedIsMine
  <2>8. services[g.prov][g.type] = NoInstance /\ g.prov \in Scopes /\ g.type \in Types
    BY <1>4, <2>4, <2>5, <2>6
  <2>9. services'[g.prov][g.type] = NoInstance
    BY <2>3, <2>7, <2>8 DEF Typed
  <2>10. QED
    BY <2>5, <2>6, <2>9
<1>16. QED
  BY <1>7, <1>9, <1>10, <1>11, <1>12, <1>13, <1>14, <1>15 DEF Moves

-----------------------------------------------------------------------------
BehindIn(s, i, j) ==
    i < j /\ Holds(s[i]) /\ Holds(s[j]) /\ s[i].type = s[j].type /\ s[i].prov = s[j].prov =>
       Len(s[j].todo) > Len(s[i].todo) \/ (Len(s[j].todo) = Len(s[i].todo) /\ j < Len(s))

\* A call does not return to a second call for the service that i makes, which
\* has come as far as i: the service they both wait for is the one that has been
\* made, while i + 1 is still making it.
LEMMA NoReturnIntoCycle ==
  ASSUME ScopeInv, Unmade, Behind, Falsy = {}, NEW th \in Threads,
         Finds(th) \/ Publishes(th),
         NEW s, NEW n, s = frames[th], n = Len(s), NEW i \in 1 .. n - 2,
         Holds(s[i]), Holds(s[n - 1]), s[i].type = s[n - 1].type, s[i].prov = s[n - 1].prov,
         Len(s[i].todo) = Len(s[n - 1].todo)
  PROVE  FALSE
<1> USE DEF ScopeInv
<1>1. PICK f : f = Top(th)
  OBVIOUS
<1>2. /\ s \in Seq(Frames) /\ n \in Nat /\ n > 0 /\ f \in Frames /\ f = s[n]
      /\ f.type \in Types /\ f.prov \in Scopes
  <2>1. s # <<>>
    BY DEF Finds, Publishes, Answers, Returned
  <2>2. QED
    BY <1>1, <2>1, StackTop DEF Frames
<1>3. /\ n - 1 \in 1 .. n /\ i + 1 \in 1 .. n /\ i \in 1 .. n /\ n \in 1 .. n /\ n # 1
      /\ i < n /\ i + 1 < n /\ i + 1 # 1 /\ n - 1 < n /\ i + 1 - 1 = i /\ n - 1 + 1 = n
  BY <1>2
<1>4. FrameFits(th, s, i) /\ FrameFits(th, s, i + 1) /\ FrameFits(th, s, n - 1) /\ FrameFits(th, s, n)
  BY <1>3 DEF Shape
<1>5. Asked(s[i]) = Asked(s[n - 1])
  BY DEF Asked
<1>6. s[i + 1].type = f.type
  <2>1. s[i + 1].type = Deps[s[i].type][Asked(s[i])]
    BY <1>3, <1>4 DEF FrameFits
  <2>2. f.type = Deps[s[n - 1].type][Asked(s[n - 1])]
    BY <1>2, <1>3, <1>4 DEF FrameFits
  <2>3. QED
    BY <1>5, <2>1, <2>2
<1>7. Holds(s[i + 1]) /\ Registered(s[i + 1].type, s[i + 1].prov)
  <2>1. s[i + 1].at = "make" /\ s[i + 1].keep
    <3>1. s[i + 1].at = "make"
      BY <1>3, <1>4 DEF FrameFits
    <3>2. s[i + 1] \in Frames
      BY <1>2, <1>3, ElementOfSeq
    <3>3. QED
      BY <1>3, <1>4, <3>1, <3>2 DEF FrameFits, Frames
  <2>2. QED
    BY <1>4, <2>1 DEF FrameFits, Holds
<1>8. s[i + 1].prov = Home(f.type, s[i].prov)
  BY <1>3, <1>4, <1>6, <1>7, FrameAtHome, SMTT(30) DEF Caller
<1>9. services[s[i + 1].prov][f.type] = NoInstance
  BY <1>3, <1>6, <1>7 DEF Unmade
<1>10. ASSUME Registered(f.type, f.prov) PROVE f.prov = s[i + 1].prov
  <2>1. f.prov = Home(f.type, Caller(th, s, n))
    BY <1>2, <1>4, <1>10, FrameAtHome
  <2>2. Caller(th, s, n) = s[n - 1].prov
    BY <1>3 DEF Caller
  <2>3. QED
    BY <1>8, <2>1, <2>2
<1>11. CASE Finds(th)
  <2>1. services[f.prov][f.type] # NoInstance
    BY <1>1, <1>11 DEF Finds, Found
  <2>2. Registered(f.type, f.prov)
    BY <1>2, <2>1 DEF DepsMade
  <2>3. QED
    BY <1>9, <1>10, <2>1, <2>2
<1>12. CASE Publishes(th)
  <2>1. Holds(f) /\ f.at = "make" /\ f.keep /\ f.todo = <<>>
    BY <1>1, <1>12 DEF Publishes, Holds
  <2>2. f.prov = s[i + 1].prov
    BY <1>2, <1>4, <1>10, <2>1 DEF FrameFits
  <2>3. Len(f.todo) > Len(s[i + 1].todo) \/ (Len(f.todo) = Len(s[i + 1].todo) /\ n < Len(s))
    BY <1>2, <1>3, <1>6, <1>7, <2>1, <2>2 DEF Behind
  <2>4. Len(f.todo) = 0 /\ Len(s[i + 1].todo) \in Nat
    <3>1. s[i + 1] \in Frames
      BY <1>2, <1>3, ElementOfSeq
    <3>2. QED
      BY <2>1, <3>1, LenProperties DEF Frames
  <2>5. QED
    BY <1>2, <2>3, <2>4
<1>13. QED
  BY <1>11, <1>12

LEMMA BehindMoves ==
  ASSUME ScopeInv, Unmade, Behind, Falsy = {}, NEW th \in Threads, Moves(th)
  PROVE  Behind'
<1> USE DEF ScopeInv
<1>1. PICK s, t, n, f : s = frames[th] /\ t = frames'[th] /\ n = Len(s) /\ f = Top(th)
  OBVIOUS
<1>2. Stack(th)
  BY DEF Moves, Enters, Asks, GoesUp, Begins, Waits, Finds, Publishes, Answers, Drops
<1>3. /\ s \in Seq(Frames) /\ t \in Seq(Frames) /\ n \in Nat
      /\ s # <<>> => n > 0 /\ f \in Frames /\ f = s[n]
  BY <1>1, <1>2, StackTop, LenProperties DEF Typed, Stack
<1>4. ASSUME NEW i \in 1 .. n, NEW j \in 1 .. n PROVE BehindIn(s, i, j)
  <2>1. \A u \in Threads : \A k, m \in 1 .. Len(frames[u]) : BehindIn(frames[u], k, m)
    BY DEF Behind, BehindIn
  <2>2. QED
    BY <1>1, <2>1
<1>5. SUFFICES \A i, j \in 1 .. Len(t) : BehindIn(t, i, j)
  <2>1. ASSUME \A i, j \in 1 .. Len(t) : BehindIn(t, i, j) PROVE Behind'
    <3>1. SUFFICES ASSUME NEW u \in Threads, NEW i \in 1 .. Len(frames'[u]), NEW j \in 1 .. Len(frames'[u])
                   PROVE  BehindIn(frames'[u], i, j)
      BY DEF Behind, BehindIn
    <3>2. CASE u = th
      BY <1>1, <2>1, <3>1, <3>2
    <3>3. CASE u # th
      <4>1. frames'[u] = frames[u]
        BY <1>2, <3>3 DEF Stack
      <4>2. \A k, m \in 1 .. Len(frames[u]) : BehindIn(frames[u], k, m)
        BY DEF Behind, BehindIn
      <4>3. QED
        BY <3>1, <4>1, <4>2
    <3>4. QED
      BY <3>2, <3>3
  <2>2. QED
    BY <2>1
<1>6. \A i \in 1 .. n : s[i] \in Frames /\ Len(s[i].todo) \in Nat
  <2>1. \A i \in 1 .. n : s[i] \in Frames
    BY <1>1, <1>3, ElementOfSeq
  <2>2. QED
    BY <2>1, LenProperties DEF Frames
\* The top is replaced by one that is behind every call before it.
<1>7. ASSUME NEW g, Changed(t, s, g), s # <<>>,
             \A i \in 1 .. n - 1 : Holds(g) /\ Holds(s[i]) /\ s[i].type = g.type =>
                Len(g.todo) > Len(s[i].todo)
      PROVE  \A i, j \in 1 .. Len(t) : BehindIn(t, i, j)
  <2>1. Len(t) = n /\ t[n] = g /\ \A i \in 1 .. n - 1 : t[i] = s[i]
    BY <1>1, <1>7 DEF Changed, Same
  <2>2. SUFFICES ASSUME NEW i \in 1 .. n, NEW j \in 1 .. n, i < j PROVE BehindIn(t, i, j)
    BY <2>1 DEF BehindIn
  <2>3. i \in 1 .. n - 1 /\ t[i] = s[i]
    BY <1>3, <2>1, <2>2
  <2>4. CASE j = n
    BY <1>7, <2>1, <2>3, <2>4 DEF BehindIn
  <2>5. CASE j # n
    <3>1. t[j] = s[j] /\ BehindIn(s, i, j) /\ Len(t) = Len(s)
      BY <1>1, <1>3, <1>4, <2>1, <2>2, <2>5
    <3>2. QED
      BY <2>3, <3>1 DEF BehindIn
  <2>6. QED
    BY <2>4, <2>5
<1>8. CASE Enters(th)
  <2>1. Len(t) = 1
    BY <1>1, <1>8 DEF Enters, Started
  <2>2. QED
    BY <2>1 DEF BehindIn
<1>9. CASE Asks(th)
  <2>1. Changed(t, s, [f EXCEPT !.at = "lock"]) /\ s # <<>>
    BY <1>1, <1>9 DEF Asks, Changed
  <2>2. ~Holds([f EXCEPT !.at = "lock"])
    BY <1>3, <2>1 DEF Frames, Holds
  <2>3. QED
    BY <1>7, <2>1, <2>2
<1>10. CASE GoesUp(th)
  <2>1. Changed(t, s, [f EXCEPT !.prov = App]) /\ s # <<>> /\ f.at = "look"
    BY <1>1, <1>10 DEF GoesUp, Changed
  <2>2. ~Holds([f EXCEPT !.prov = App])
    BY <1>3, <2>1 DEF Frames, Holds
  <2>3. QED
    BY <1>7, <2>1, <2>2
<1>11. CASE Begins(th)
  <2>1. PICK g : g = [f EXCEPT !.at = "make", !.todo = Deps[f.type]]
    OBVIOUS
  <2>2. Changed(t, s, g) /\ s # <<>>
    BY <1>1, <1>11, <2>1 DEF Begins, Changed
  <2>3. g.type = f.type /\ g.todo = Deps[f.type]
    BY <1>3, <2>1, <2>2 DEF Frames
  <2>4. ASSUME NEW i \in 1 .. n - 1, s[i].type = g.type PROVE Len(g.todo) > Len(s[i].todo)
    <3>1. FrameFits(th, s, i) /\ i < Len(s) /\ i \in 1 .. n
      BY <1>1, <1>3, <2>4 DEF Shape
    <3>2. Asked(s[i]) > 0
      BY <3>1 DEF FrameFits
    <3>3. Len(Deps[f.type]) - Len(s[i].todo) > 0
      BY <2>3, <2>4, <3>2 DEF Asked
    <3>4. Len(Deps[f.type]) \in Nat /\ Len(s[i].todo) \in Nat
      <4>1. Deps[f.type] \in Seq(Types)
        BY <1>1, <2>2, StackTop
      <4>2. QED
        BY <1>6, <3>1, <4>1, LenProperties
    <3>5. Len(Deps[f.type]) > Len(s[i].todo)
      <4>1. \A a, b \in Nat : a - b > 0 => a > b
        OBVIOUS
      <4>2. QED
        BY ONLY <3>3, <3>4, <4>1
    <3>6. QED
      BY <2>3, <3>5
  <2>5. QED
    BY <1>7, <2>2, <2>4
<1>12. CASE Waits(th)
  <2>1. PICK g, h : g = [f EXCEPT !.todo = Tail(f.todo)] /\ h = Frame(Head(f.todo), f.prov)
    OBVIOUS
  <2>2. Called(t, s, g, h) /\ s # <<>> /\ f.todo # <<>>
    BY <1>1, <1>12, <2>1 DEF Waits, Called
  <2>3. g.at = f.at /\ g.prov = f.prov /\ g.type = f.type /\ g.keep = f.keep /\ ~Holds(h)
        /\ g.todo = Tail(f.todo)
    BY <1>3, <2>1, <2>2 DEF Frames, Frame, Holds
  <2>4. Len(t) = n + 1 /\ t[n] = g /\ t[n + 1] = h /\ \A i \in 1 .. n - 1 : t[i] = s[i]
    BY <1>1, <2>2 DEF Called, Same
  <2>5. Len(g.todo) = Len(f.todo) - 1 /\ Len(f.todo) \in Nat
    BY <1>3, <2>2, <2>3, HeadTailProperties, LenProperties DEF Frames
  <2>6. SUFFICES ASSUME NEW i \in 1 .. n + 1, NEW j \in 1 .. n + 1, i < j, Holds(t[j])
                 PROVE  BehindIn(t, i, j)
    BY <2>4 DEF BehindIn
  <2>7. j # n + 1 /\ i \in 1 .. n - 1 /\ i \in 1 .. n /\ j \in 1 .. n /\ n \in Nat /\ j < Len(t)
    BY <1>3, <2>3, <2>4, <2>6
  <2>8. t[i] = s[i] /\ Len(s[i].todo) \in Nat /\ BehindIn(s, i, j)
    BY <1>4, <1>6, <2>4, <2>7
  <2>9. CASE j = n
    <3>1. Holds(f) <=> Holds(g)
      BY <2>3 DEF Holds
    <3>2. Holds(s[i]) /\ Holds(f) /\ s[i].type = f.type /\ s[i].prov = f.prov => Len(f.todo) > Len(s[i].todo)
      BY <1>1, <1>3, <2>2, <2>6, <2>8, <2>9 DEF BehindIn
    <3>3. Holds(s[i]) /\ Holds(g) /\ s[i].type = g.type /\ s[i].prov = g.prov =>
             Len(g.todo) > Len(s[i].todo) \/ Len(g.todo) = Len(s[i].todo)
      BY <2>3, <2>5, <2>8, <3>1, <3>2
    <3>4. QED
      BY <2>4, <2>7, <2>8, <2>9, <3>3 DEF BehindIn
  <2>10. CASE j # n
    <3>1. t[j] = s[j]
      BY <2>4, <2>7, <2>10
    <3>2. QED
      BY <2>7, <2>8, <3>1 DEF BehindIn
  <2>11. QED
    BY <2>9, <2>10
<1>13. CASE Finds(th) \/ Publishes(th)
  <2>1. Returned(t, s) /\ s # <<>>
    BY <1>1, <1>13 DEF Finds, Publishes, Answers, Returned
  <2>2. Len(t) = n - 1 /\ \A i \in 1 .. n - 1 : t[i] = s[i]
    BY <1>1, <2>1 DEF Returned, Same
  <2>3. SUFFICES ASSUME NEW i \in 1 .. n - 1, NEW j \in 1 .. n - 1, i < j PROVE BehindIn(t, i, j)
    BY <2>2 DEF BehindIn
  <2>4. t[i] = s[i] /\ t[j] = s[j] /\ BehindIn(s, i, j)
    BY <1>3, <1>4, <2>2
  <2>5. CASE j < n - 1
    BY <2>2, <2>4, <2>5 DEF BehindIn
  <2>6. CASE j = n - 1
    <3>1. i \in 1 .. n - 2
      BY <1>3, <2>3, <2>6
    <3>2. ~(/\ Holds(s[i]) /\ Holds(s[n - 1]) /\ s[i].type = s[n - 1].type
            /\ s[i].prov = s[n - 1].prov /\ Len(s[i].todo) = Len(s[n - 1].todo))
      BY <1>1, <1>13, <3>1, NoReturnIntoCycle
    <3>3. QED
      BY <2>4, <2>6, <3>2 DEF BehindIn
  <2>7. QED
    BY <1>3, <2>5, <2>6
<1>14. CASE Drops(th)
  <2>1. Len(t) = 0
    BY <1>1, <1>14 DEF Drops
  <2>2. QED
    BY <2>1
<1>15. QED
  BY <1>8, <1>9, <1>10, <1>11, <1>12, <1>13, <1>14 DEF Moves

-----------------------------------------------------------------------------
\* What a call returns is the published service of its home: the call that made
\* it has just published it, and nothing of its type was on the stack before.
LEMMA MadeOnceMoves ==
  ASSUME ScopeInv, OnceInv, Falsy = {}, NEW th \in Threads, Moves(th)
  PROVE  MadeOnce'
<1> USE DEF ScopeInv, OnceInv
<1>1. PICK f : f = Top(th)
  OBVIOUS
<1>2. ScopeOf[th] \in Scopes /\ \A u \in Threads : ScopeOf[u] \in Scopes
  BY ScopesOfThreads
<1>3. \A u \in Threads : \A r \in results[u] :
         r.asked \in Types /\ r.got # NoInstance
         /\ Home(r.asked, ScopeOf[u]) \in Scopes
         /\ services[Home(r.asked, ScopeOf[u])][r.asked] = r.got
  <2>1. ASSUME NEW u \in Threads, NEW r \in results[u]
        PROVE  r.asked \in Types /\ r.got # NoInstance
    <3>1. r \in [asked : Types, got : Instances]
      BY DEF Typed
    <3>2. \A x \in Instances : x # NoInstance
      <4>1. \A x \in Instances : x.type \in Types
        BY DEF Instances
      <4>2. NoInstance.type = "none"
        BY DEF NoInstance
      <4>3. QED
        BY <4>1, <4>2, ServicesAssumption
    <3>3. QED
      BY <3>1, <3>2
  <2>2. QED
    BY <1>2, <2>1, HomeInScopes DEF MadeOnce
<1>4. CASE Enters(th) \/ Asks(th) \/ GoesUp(th) \/ Begins(th) \/ Waits(th) \/ Drops(th)
  <2>1. UNCHANGED <<services, exits, results>>
    BY <1>4 DEF Enters, Asks, GoesUp, Begins, Waits, Drops
  <2>2. QED
    BY <2>1 DEF MadeOnce
<1>5. ASSUME Finds(th) \/ Publishes(th)
      PROVE  /\ frames[th] # <<>> /\ f \in Frames /\ f.type \in Types /\ f.prov \in Scopes
             /\ Registered(f.type, f.prov) /\ Len(frames[th]) = 1 => f.prov = Home(f.type, ScopeOf[th])
             /\ Publishes(th) => Registered(f.type, f.prov)
  <2>1. frames[th] # <<>>
    BY <1>5 DEF Finds, Publishes, Answers, Returned
  <2>2. f \in Frames /\ f = frames[th][Len(frames[th])] /\ Len(frames[th]) \in Nat
        /\ Len(frames[th]) > 0
    BY <1>1, <2>1, StackTop
  <2>3. FrameFits(th, frames[th], Len(frames[th]))
    BY <2>2 DEF Shape
  <2>4. Publishes(th) => Registered(f.type, f.prov)
    BY <1>1, <2>2, <2>3 DEF FrameFits, Publishes
  <2>5. Len(frames[th]) = 1 => Caller(th, frames[th], Len(frames[th])) = ScopeOf[th]
    BY DEF Caller
  <2>6. Registered(f.type, f.prov) => f.prov = Home(f.type, Caller(th, frames[th], Len(frames[th])))
    BY <2>2, <2>3, FrameAtHome
  <2>7. QED
    BY <2>1, <2>2, <2>4, <2>5, <2>6 DEF Frames
<1>6. ASSUME NEW x, Answers(th, x), Finds(th) \/ Publishes(th),
             Registered(f.type, f.prov), services'[f.prov][f.type] = x,
             \A p \in Scopes, d \in Types :
                services[p][d] # NoInstance => services'[p][d] = services[p][d]
      PROVE  \A u \in Threads : \A r \in results'[u] :
                services'[Home(r.asked, ScopeOf[u])][r.asked] = r.got
  <2>1. SUFFICES ASSUME NEW u \in Threads, NEW r \in results'[u]
                 PROVE  services'[Home(r.asked, ScopeOf[u])][r.asked] = r.got
    OBVIOUS
  <2>2. r \in results[u] \/ (u = th /\ Len(frames[th]) = 1 /\ r = [asked |-> f.type, got |-> x])
    BY <1>1, <1>6 DEF Answers, Typed
  <2>3. CASE r \in results[u]
    BY <1>3, <1>6, <2>3
  <2>4. CASE u = th /\ Len(frames[th]) = 1 /\ r = [asked |-> f.type, got |-> x]
    <3>1. r.asked = f.type /\ r.got = x
      BY <2>4
    <3>2. f.prov = Home(f.type, ScopeOf[th])
      BY <1>5, <1>6, <2>4
    <3>3. QED
      BY <1>6, <2>4, <3>1, <3>2
  <2>5. QED
    BY <2>2, <2>3, <2>4
<1>7. CASE Finds(th)
  <2>1. /\ Answers(th, services[f.prov][f.type]) /\ UNCHANGED <<services, exits>>
        /\ services[f.prov][f.type] # NoInstance
    BY <1>1, <1>7 DEF Finds, Found
  <2>2. Registered(f.type, f.prov)
    BY <1>5, <1>7, <2>1 DEF DepsMade
  <2>3. \A u \in Threads : \A r \in results'[u] :
           services'[Home(r.asked, ScopeOf[u])][r.asked] = r.got
    BY <1>6, <1>7, <2>1, <2>2
  <2>4. QED
    BY <2>1, <2>3 DEF MadeOnce
<1>8. CASE Publishes(th)
  <2>1. PICK p, x : p = f.prov /\ x = NewInstance(f)
    OBVIOUS
  <2>2. /\ Answers(th, x) /\ exits' = [exits EXCEPT ![p] = Append(exits[p], x)]
        /\ services' = [services EXCEPT ![p][f.type] = x] /\ Holds(f)
    BY <1>1, <1>8, <2>1 DEF Publishes, Holds
  <2>3. services[p][f.type] = NoInstance /\ p \in Scopes /\ f.type \in Types
    <3>1. f = frames[th][Len(frames[th])] /\ Len(frames[th]) \in 1 .. Len(frames[th])
      BY <1>1, <1>5, <1>8, StackTop
    <3>2. QED
      BY <1>5, <1>8, <2>1, <2>2, <3>1 DEF Unmade
  <2>4. services'[p][f.type] = x
        /\ \A q \in Scopes, d \in Types :
              services[q][d] # NoInstance => services'[q][d] = services[q][d]
    BY <2>2, <2>3 DEF Typed
  <2>5. \A u \in Threads : \A r \in results'[u] :
           services'[Home(r.asked, ScopeOf[u])][r.asked] = r.got
    BY <1>5, <1>6, <1>8, <2>1, <2>2, <2>4
  <2>6. x.n = 0
    <3>1. exits[p] \in Seq(Instances)
      BY <2>3 DEF Typed
    <3>2. DOMAIN exits[p] = 1 .. Len(exits[p])
      BY <3>1, LenProperties
    <3>3. \A k \in 1 .. Len(exits[p]) : exits[p][k].type # f.type
      BY <2>3 DEF Published
    <3>4. {k \in DOMAIN exits[p] : exits[p][k].type = f.type} = {}
      BY <3>2, <3>3
    <3>5. QED
      BY <2>1, <3>4, FS_EmptySet DEF NewInstance
  <2>7. \A q \in Scopes : \A k \in 1 .. Len(exits'[q]) : exits'[q][k].n = 0
    <3>1. SUFFICES ASSUME NEW q \in Scopes, NEW k \in 1 .. Len(exits'[q]) PROVE exits'[q][k].n = 0
      OBVIOUS
    <3>2. CASE q = p
      <4>1. exits[p] \in Seq(Instances) /\ exits'[p] = Append(exits[p], x) /\ Len(exits[p]) \in Nat
        BY <2>2, <2>3, LenProperties DEF Typed
      <4>2. /\ Len(exits'[p]) = Len(exits[p]) + 1 /\ exits'[p][Len(exits[p]) + 1] = x
            /\ \A j \in 1 .. Len(exits[p]) : exits'[p][j] = exits[p][j]
        <5>1. x \in Instances
          BY <1>5, <1>8, <2>1, NewInstanceTyped
        <5>2. QED
          BY <4>1, <5>1, AppendProperties
      <4>3. k \in 1 .. Len(exits[p]) \/ k = Len(exits[p]) + 1
        BY <3>1, <3>2, <4>1, <4>2
      <4>4. QED
        BY <2>6, <3>2, <4>2, <4>3 DEF MadeOnce
    <3>3. CASE q # p
      <4>1. exits'[q] = exits[q]
        BY <2>2, <3>3 DEF Typed
      <4>2. QED
        BY <3>1, <4>1 DEF MadeOnce
    <3>4. QED
      BY <3>2, <3>3
  <2>8. QED
    BY <2>5, <2>7 DEF MadeOnce
<1>9. QED
  BY <1>4, <1>7, <1>8 DEF Moves

LEMMA OnceInvInit == Init => OnceInv
<1> SUFFICES ASSUME Init PROVE OnceInv
  OBVIOUS
<1>1. \A th \in Threads, p \in Scopes : Held(th, p) = {} /\ lock[p].owner # th /\ lock[p].depth = 0
  BY ServicesAssumption DEF Init, Held
<1>2. Locked
  BY <1>1 DEF Locked
<1>3. Unmade /\ Behind /\ MadeOnce
  BY DEF Init, Unmade, Behind, MadeOnce
<1>4. QED
  BY <1>2, <1>3 DEF OnceInv

LEMMA OnceInvNext ==
  ASSUME ScopeInv, OnceInv, Falsy = {}, [Next]_vars
  PROVE  OnceInv'
<1> USE DEF OnceInv
<1>1. ASSUME NEW th \in Threads, ThreadMoved(th) PROVE OnceInv'
  <2>1. Moves(th)
    BY <1>1, ThreadMoves DEF ThreadMoved, ScopeInv
  <2>2. Locked' /\ Unmade' /\ Behind' /\ MadeOnce'
    BY <2>1, LockedMoves, UnmadeMoves, BehindMoves, MadeOnceMoves
  <2>3. QED
    BY <2>2
<1>2. CASE ScopeStep
  <2>1. UNCHANGED <<services, lock, frames, results>>
    BY <1>2, TypedScope DEF ScopeInv
  <2>2. Locked' /\ Unmade' /\ Behind'
    <3>1. \A th \in Threads, p \in Scopes : Held(th, p)' = Held(th, p)
      BY <2>1 DEF Held
    <3>2. Locked'
      BY <2>1, <3>1 DEF Locked
    <3>3. Unmade' /\ Behind'
      BY <2>1 DEF Unmade, Behind
    <3>4. QED
      BY <3>2, <3>3
  <2>3. \A p \in Scopes : \A k \in 1 .. Len(exits'[p]) : k \in 1 .. Len(exits[p]) /\ exits'[p][k] = exits[p][k]
    <3>1. ASSUME NEW q \in Scopes, CloseOne(q), exits[q] # <<>>
          PROVE  \A p \in Scopes : \A k \in 1 .. Len(exits'[p]) :
                    k \in 1 .. Len(exits[p]) /\ exits'[p][k] = exits[p][k]
      <4>1. exits[q] \in Seq(Instances) /\ exits'[q] = Front(exits[q])
            /\ \A p \in Scopes : p # q => exits'[p] = exits[p]
        BY <3>1 DEF CloseOne, ScopeInv, Typed
      <4>2. /\ Len(exits[q]) \in Nat /\ Len(exits'[q]) = Len(exits[q]) - 1
            /\ \A k \in 1 .. Len(exits[q]) - 1 : exits'[q][k] = exits[q][k]
        BY <3>1, <4>1, FrontAndLast
      <4>3. QED
        BY <4>1, <4>2
    <3>2. CASE UNCHANGED exits
      BY <3>2
    <3>3. QED
      BY <1>2, <3>1, <3>2 DEF ScopeStep, OpenScope, Opened, CloseScope, CloseOne, Over, vars
  <2>4. MadeOnce'
    BY <2>1, <2>3 DEF MadeOnce
  <2>5. QED
    BY <2>2, <2>4
<1>3. QED
  BY <1>1, <1>2, NextCases

\* Unless the instances of some type are falsy, a service is made once in its scope
\* and every resolve of the scope returns that instance, whichever threads ask at
\* once and whatever cycles the dependencies have: the second look under the lock.
THEOREM MadeOncePerScope == Falsy = {} => (Spec => []OncePerScope)
<1> SUFFICES ASSUME Falsy = {} PROVE Spec => []OncePerScope
  OBVIOUS
<1>1. Init => ScopeInv /\ OnceInv
  BY ScopeInvInit, OnceInvInit
<1>2. ScopeInv /\ OnceInv /\ [Next]_vars => (ScopeInv /\ OnceInv)'
  BY ScopeInvNext, OnceInvNext
<1>3. ScopeInv /\ OnceInv => OncePerScope
  <2>1. ASSUME ScopeInv, NEW p \in Scopes PROVE DOMAIN exits[p] = 1 .. Len(exits[p])
    <3>1. exits[p] \in Seq(Instances)
      BY <2>1 DEF ScopeInv, Typed
    <3>2. QED
      BY <3>1, LenProperties
  <2>2. QED
    BY <2>1 DEF OnceInv, MadeOnce, OncePerScope
<1>4. QED
  BY <1>1, <1>2, <1>3, PTL DEF Spec
=============================================================================
