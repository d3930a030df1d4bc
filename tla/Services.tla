------------------------------ MODULE Services -------------------------------
(***************************************************************************)
(* Scoped services of localpost/di/_services.py, resolved by several       *)
(* threads; flask.py opens a scope per request below the scope of the app. *)
(*                                                                         *)
(* resolve is recursive: each thread has a stack of the calls it is in.  A *)
(* provider's lock is reentrant and held while a service and what it       *)
(* depends on are made; the first look at the published services is not    *)
(* under the lock.                                                         *)
(***************************************************************************)
EXTENDS Integers, Sequences, SequencesExt, FiniteSets

CONSTANTS
    Types,          \* service types
    Deps,           \* the constructor's dependencies of each type, in order
    AppTypes,       \* types registered in the scope of the application
    RequestTypes,   \* types registered in the scope of a request
    Eager,          \* types registered with create_on_enter
    Falsy,          \* types whose instances are falsy
    Requests,       \* the scopes of requests; their parent is App
    Threads,
    ScopeOf,        \* the scope each thread works in
    Calls           \* a bound: calls of resolve and create by each thread

App == "app"
Scopes == {App} \cup Requests
NoInstance == [type |-> "none", of |-> App, n |-> 0]
Nobody == "nobody"

ASSUME ServicesAssumption ==
    /\ Deps \in [Types -> Seq(Types)]
    /\ AppTypes \cup RequestTypes \cup Eager \cup Falsy \subseteq Types
    /\ ScopeOf \in [Threads -> Scopes] /\ App \notin Requests
    /\ Calls \in Nat /\ Nobody \notin Threads /\ "none" \notin Types

VARIABLES
    services,   \* DefaultServiceProvider.services of each scope
    lock,       \* _lock: who holds it and how often
    exits,      \* the ExitStack of each scope
    phase,      \* of each scope: "new", "opening", "open", "closing", "closed"
    eager,      \* the types scope() has yet to resolve
    frames,     \* the calls each thread is in, innermost last
    calls,      \* calls made by each thread
    results     \* what each thread's calls of resolve returned

scopeVars == <<phase, eager>>
threadVars == <<frames, calls, results>>
vars == <<services, lock, exits, scopeVars, threadVars>>

-----------------------------------------------------------------------------
\* ServiceRegistry.get, for the scope type of a provider.
Registered(type, p) == type \in (IF p = App THEN AppTypes ELSE RequestTypes)

\* The provider that makes the services of this type for p: parents are asked
\* until one has a descriptor.
Home(type, p) == IF Registered(type, p) THEN p ELSE App

EagerOf(p) == {type \in Eager : Registered(type, p)}

\* What the test "if resolved_service := ..." takes for a service.
Found(type, p) == services[p][type] # NoInstance /\ type \notin Falsy

Frame(type, p) == [type |-> type, prov |-> p, at |-> "look", todo |-> <<>>, keep |-> TRUE]
Top(th) == Last(frames[th])
In(th, place) == frames[th] # <<>> /\ Top(th).at = place

\* The top call of a thread goes on.
SetTop(th, frame) == frames' = [frames EXCEPT ![th] = Append(Front(@), frame)]

Init ==
    /\ services = [p \in Scopes |-> [type \in Types |-> NoInstance]]
    /\ lock = [p \in Scopes |-> [owner |-> Nobody, depth |-> 0]]
    /\ exits = [p \in Scopes |-> <<>>]
    /\ phase = [p \in Scopes |-> "new"] /\ eager = [p \in Scopes |-> {}]
    /\ frames = [th \in Threads |-> <<>>] /\ calls = [th \in Threads |-> 0]
    /\ results = [th \in Threads |-> {}]

-----------------------------------------------------------------------------
\* app_scope, flask_req_ctx: a provider with an empty ExitStack; scope() starts.
OpenScope(p) ==
    /\ phase[p] = "new" /\ (p # App => phase[App] = "open")
    /\ phase' = [phase EXCEPT ![p] = "opening"]
    /\ eager' = [eager EXCEPT ![p] = EagerOf(p)]
    /\ UNCHANGED <<services, lock, exits, threadVars>>

\* The thread that enters scope() resolves one of the eager types.
ResolveEager(th) ==
    LET p == ScopeOf[th] IN
    /\ phase[p] = "opening" /\ \A u \in Threads : ScopeOf[u] = p => frames[u] = <<>>
    /\ \E type \in eager[p] :
          /\ eager' = [eager EXCEPT ![p] = @ \ {type}]
          /\ frames' = [frames EXCEPT ![th] = <<Frame(type, p)>>]
    /\ UNCHANGED <<services, lock, exits, phase, calls, results>>

Opened(p) ==
    /\ phase[p] = "opening" /\ eager[p] = {}
    /\ \A u \in Threads : ScopeOf[u] = p => frames[u] = <<>>
    /\ phase' = [phase EXCEPT ![p] = "open"]
    /\ UNCHANGED <<services, lock, exits, eager, threadVars>>

\* A thread calls resolve(type), or create(type), which keeps nothing.
Idle(th) == frames[th] = <<>> /\ phase[ScopeOf[th]] = "open" /\ calls[th] < Calls

Resolve(th) ==
    /\ Idle(th)
    /\ \E type \in Types :
          frames' = [frames EXCEPT ![th] = <<Frame(type, ScopeOf[th])>>]
    /\ calls' = [calls EXCEPT ![th] = @ + 1]
    /\ UNCHANGED <<services, lock, exits, scopeVars, results>>

Create(th) ==
    /\ Idle(th)
    /\ \E type \in Types :
          frames' = [frames EXCEPT ![th] =
              <<[Frame(type, ScopeOf[th]) EXCEPT !.at = "make", !.todo = Deps[type],
                                                 !.keep = FALSE]>>]
    /\ calls' = [calls EXCEPT ![th] = @ + 1]
    /\ UNCHANGED <<services, lock, exits, scopeVars, results>>

\* The top call of a thread returns.
Return(th, instance) ==
    /\ frames' = [frames EXCEPT ![th] = Front(@)]
    /\ results' = IF Len(frames[th]) = 1
                    THEN [results EXCEPT ![th] =
                             @ \cup {[asked |-> Top(th).type, got |-> instance]}]
                    ELSE results

\* An exception goes through every call of the thread and leaves their locks;
\* out of scope() it closes the scope.
Raise(th) ==
    LET p == ScopeOf[th] IN
    /\ frames' = [frames EXCEPT ![th] = <<>>]
    /\ lock' = [q \in Scopes |-> IF lock[q].owner = th
                                   THEN [owner |-> Nobody, depth |-> 0] ELSE lock[q]]
    /\ phase' = IF phase[p] = "opening" THEN [phase EXCEPT ![p] = "closing"] ELSE phase
    /\ UNCHANGED <<services, exits, eager, calls, results>>

-----------------------------------------------------------------------------
\* resolve up to the lock: the service is there, or has a descriptor here, or
\* the parent is asked.
Look(th) ==
    /\ In(th, "look")
    /\ LET f == Top(th) IN
       \/ /\ Found(f.type, f.prov)
          /\ Return(th, services[f.prov][f.type])
          /\ UNCHANGED <<services, lock, exits, scopeVars, calls>>
       \/ /\ ~Found(f.type, f.prov) /\ Registered(f.type, f.prov)
          /\ SetTop(th, [f EXCEPT !.at = "lock"])
          /\ UNCHANGED <<services, lock, exits, scopeVars, calls, results>>
       \/ /\ ~Found(f.type, f.prov) /\ ~Registered(f.type, f.prov) /\ f.prov # App
          /\ SetTop(th, [f EXCEPT !.prov = App])
          /\ UNCHANGED <<services, lock, exits, scopeVars, calls, results>>
       \/ /\ ~Found(f.type, f.prov) /\ ~Registered(f.type, f.prov) /\ f.prov = App
          /\ Raise(th)

\* The RLock.
Free(p, th) == lock[p].owner \in {Nobody, th}
TakeLock(p, th) == lock' = [lock EXCEPT ![p] = [owner |-> th, depth |-> @.depth + 1]]
Released(l) == IF l.depth = 1 THEN [owner |-> Nobody, depth |-> 0]
                              ELSE [l EXCEPT !.depth = @ - 1]

\* Under the lock: another thread has made it meanwhile, or it is made here,
\* after its dependencies, which the factory resolves.
AcquireBlindly(th) ==       \* mutant: the second look is left out
    /\ In(th, "lock")
    /\ LET f == Top(th) IN
       /\ Free(f.prov, th) /\ TakeLock(f.prov, th)
       /\ SetTop(th, [f EXCEPT !.at = "make", !.todo = Deps[f.type]])
    /\ UNCHANGED <<services, exits, scopeVars, calls, results>>

AcquirePlain(th) ==         \* mutant: threading.Lock
    /\ In(th, "lock")
    /\ LET f == Top(th) IN
       /\ lock[f.prov].owner = Nobody
       /\ IF Found(f.type, f.prov)
            THEN Return(th, services[f.prov][f.type]) /\ UNCHANGED lock
            ELSE /\ TakeLock(f.prov, th)
                 /\ SetTop(th, [f EXCEPT !.at = "make", !.todo = Deps[f.type]])
                 /\ UNCHANGED results
    /\ UNCHANGED <<services, exits, scopeVars, calls>>

Acquire(th) ==
    /\ In(th, "lock")
    /\ LET f == Top(th) IN
       /\ Free(f.prov, th)
       /\ IF Found(f.type, f.prov)
            THEN Return(th, services[f.prov][f.type]) /\ UNCHANGED lock
            ELSE /\ TakeLock(f.prov, th)
                 /\ SetTop(th, [f EXCEPT !.at = "make", !.todo = Deps[f.type]])
                 /\ UNCHANGED results
    /\ UNCHANGED <<services, exits, scopeVars, calls>>

\* The factory resolves the next dependency, through the provider that makes
\* the service (cm_plain, cm_gen, _factory_for_type).
NextDep(th) ==
    /\ In(th, "make") /\ Top(th).todo # <<>>
    /\ LET f == Top(th) IN
       frames' = [frames EXCEPT ![th] =
           Front(@) \o <<[f EXCEPT !.todo = Tail(@)], Frame(Head(f.todo), f.prov)>>]
    /\ UNCHANGED <<services, lock, exits, scopeVars, calls, results>>

\* enter_context pushes the exit, then the service is published, then the lock
\* is left.  create does none of this.
Make(th) ==
    /\ In(th, "make") /\ Top(th).todo = <<>>
    /\ LET f == Top(th)
           made == [type |-> f.type, of |-> f.prov,
                    n |-> Cardinality({k \in DOMAIN exits[f.prov] :
                                          exits[f.prov][k].type = f.type})]
       IN IF f.keep
            THEN /\ exits' = [exits EXCEPT ![f.prov] = Append(@, made)]
                 /\ services' = [services EXCEPT ![f.prov][f.type] = made]
                 /\ lock' = [lock EXCEPT ![f.prov] = Released(@)]
                 /\ Return(th, made)
            ELSE /\ frames' = [frames EXCEPT ![th] = <<>>]
                 /\ UNCHANGED <<exits, services, lock, results>>
    /\ UNCHANGED <<scopeVars, calls>>

\* The constructor or generator raises.
Fail(th) == In(th, "make") /\ Top(th).todo = <<>> /\ Raise(th)

-----------------------------------------------------------------------------
\* The scope is left: nobody works in it or below it any more.
Quiet(p) ==
    /\ \A th \in Threads : ScopeOf[th] = p => frames[th] = <<>>
    /\ p = App => \A q \in Requests : phase[q] \in {"new", "closed"}

CloseScope(p) ==
    /\ phase[p] = "open" /\ Quiet(p)
    /\ phase' = [phase EXCEPT ![p] = "closing"]
    /\ UNCHANGED <<services, lock, exits, eager, threadVars>>

\* ExitStack.__exit__: last in, first out.
CloseOneInOrder(p) ==       \* mutant: in the order of their creation
    /\ phase[p] = "closing"
    /\ IF exits[p] = <<>> THEN phase' = [phase EXCEPT ![p] = "closed"] /\ UNCHANGED exits
       ELSE exits' = [exits EXCEPT ![p] = Tail(@)] /\ UNCHANGED phase
    /\ UNCHANGED <<services, lock, eager, threadVars>>

CloseOne(p) ==
    /\ phase[p] = "closing"
    /\ IF exits[p] = <<>> THEN phase' = [phase EXCEPT ![p] = "closed"] /\ UNCHANGED exits
       ELSE exits' = [exits EXCEPT ![p] = Front(@)] /\ UNCHANGED phase
    /\ UNCHANGED <<services, lock, eager, threadVars>>

ThreadStep(th) ==
    Look(th) \/ Acquire(th) \/ NextDep(th) \/ Make(th)

Over == phase[App] = "closed" /\ UNCHANGED vars

Next ==
    \/ \E p \in Scopes : OpenScope(p) \/ Opened(p) \/ CloseScope(p) \/ CloseOne(p)
    \/ \E th \in Threads :
          ResolveEager(th) \/ Resolve(th) \/ Create(th) \/ ThreadStep(th) \/ Fail(th)
    \/ Over

\* Threads run: nobody stays inside a call.
Spec == Init /\ [][Next]_vars /\ \A th \in Threads : WF_vars(ThreadStep(th))

-----------------------------------------------------------------------------
\* A service is made once in its scope and every resolve of the scope returns
\* that instance, whichever threads ask at once (double-checked creation).
OncePerScope ==
    /\ \A p \in Scopes : \A k \in DOMAIN exits[p] : exits[p][k].n = 0
    /\ \A th \in Threads : \A r \in results[th] :
          LET p == Home(r.asked, ScopeOf[th])
          IN  phase[p] = "open" => services[p][r.asked] = r.got

\* What a service was made from is still open as long as the service is: its
\* dependencies are in the parent, which closes later, or in the same stack,
\* below it, even when a first attempt to make it failed.
DependenciesOutlive ==
    \A p \in Scopes : \A k \in DOMAIN exits[p] :
        \A d \in ToSet(Deps[exits[p][k].type]) :
            LET q == Home(d, p)
            IN \E j \in DOMAIN exits[q] : exits[q][j].type = d /\ (q = p => j < k)

\* Every resolve returns or raises: a thread that holds the lock of a request
\* and waits for the lock of the application is never waited for in turn.
ResolvesEnd == \A th \in Threads : frames[th] # <<>> ~> frames[th] = <<>>
=============================================================================
