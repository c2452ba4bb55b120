---------------------------- MODULE ServiceLocator ----------------------------
(***************************************************************************)
(* ServiceLocator (src/voxen/svc/service_locator.cpp): services are started *)
(* on request, each by its factory, which requests the services it depends *)
(* on; they are destroyed in the reverse order of their start.             *)
(*                                                                         *)
(* A critical section is a step.  A thread holds a stack of calls of       *)
(* requestService; a factory may also run its requests in a thread that it *)
(* joins, which makes no difference to the stack.                          *)
(***************************************************************************)
EXTENDS Integers, Sequences, FiniteSets, SequencesExt

CONSTANTS Services,
          Callers,      \* threads that request services
          Deps,         \* service -> the services its factory requests, in order
          MaxRequests   \* bound: requests a thread makes of its own

\* Checked by the modules that instantiate this one.
DepsAssumption == Deps \in [Services -> Seq(Services)]

VARIABLES
  active,     \* services in active_services
  factories,  \* services in factory_map
  startOrder, \* start_order
  pending,    \* pending_services
  frames,     \* thread -> its calls of requestService, the innermost last
  asked,      \* thread -> number of requests of its own
  thrown,     \* thread -> the error on its way up, or "none"
  dying,      \* the service that ~ServiceLocator is destroying, as a set
  down,       \* ~ServiceLocator has begun
  crossed     \* history: a call looked at pending_services during another thread's start

vars == <<active, factories, startOrder, pending, frames, asked, thrown, dying, down, crossed>>
-----------------------------------------------------------------------------
Init ==
  /\ active = {} /\ factories = {} /\ startOrder = <<>> /\ pending = <<>>
  /\ frames = [t \in Callers |-> <<>>] /\ asked = [t \in Callers |-> 0]
  /\ thrown = [t \in Callers |-> "none"]
  /\ dying = {} /\ down = FALSE /\ crossed = FALSE

\* A call of requestService: the service, the place in the function, and how many
\* services its factory has requested.
Frame(s) == [id |-> s, at |-> "find", done |-> 0]

Top(t) == Last(frames[t])
At(t, place) == frames[t] # <<>> /\ Top(t).at = place /\ thrown[t] = "none"

Move(t, frame) == frames' = [frames EXCEPT ![t] = Front(@) \o <<frame>>]
Enter(t, s) == frames' = [frames EXCEPT ![t] = Append(@, Frame(s))]

\* The call returns, to the factory that made it or out of the locator.
Leave(t) ==
  frames' = [frames EXCEPT ![t] =
               LET rest == Front(@)
               IN  IF rest = <<>> THEN rest
                   ELSE Front(rest) \o <<[Last(rest) EXCEPT !.done = @ + 1]>>]

Throw(t, error) == thrown' = [thrown EXCEPT ![t] = error]

\* Some call of the thread is in its factory: an entry of pending_services is its own.
Starting(t) == \E i \in DOMAIN frames[t] : frames[t][i].at = "factory"
-----------------------------------------------------------------------------
\* Registered by the engine, by anybody, or by the factory that depends on it; once.
Register(s) ==
  /\ ~down /\ s \notin factories
  /\ factories' = factories \cup {s}
  /\ UNCHANGED <<active, startOrder, pending, frames, asked, thrown, dying, down, crossed>>

Request(t, s) ==
  /\ ~down /\ frames[t] = <<>> /\ thrown[t] = "none" /\ asked[t] < MaxRequests
  /\ asked' = [asked EXCEPT ![t] = @ + 1]
  /\ Enter(t, s)
  /\ UNCHANGED <<active, factories, startOrder, pending, thrown, dying, down, crossed>>

\* findService under the shared lock.
Find(t) ==
  /\ At(t, "find")
  /\ IF Top(t).id \in active THEN Leave(t) ELSE Move(t, [Top(t) EXCEPT !.at = "start"])
  /\ UNCHANGED <<active, factories, startOrder, pending, asked, thrown, dying, down, crossed>>

Crossed(t) == crossed' = (crossed \/ \E u \in Callers \ {t} : Starting(u))

\* Under the exclusive lock: found after all, a circle, no factory, or to be made.  The
\* entries of all threads are on one stack.
Start(t) ==
  /\ At(t, "start")
  /\ LET s == Top(t).id
     IN \/ /\ s \in active
           /\ Leave(t) /\ UNCHANGED <<pending, thrown, crossed>>
        \/ /\ s \notin active /\ \E i \in DOMAIN pending : pending[i] = s
           /\ Throw(t, "circular") /\ Move(t, [Top(t) EXCEPT !.at = "out"])
           /\ Crossed(t) /\ UNCHANGED pending
        \/ /\ s \notin active /\ \A i \in DOMAIN pending : pending[i] # s
           /\ s \notin factories
           /\ Throw(t, "unresolved") /\ Move(t, [Top(t) EXCEPT !.at = "out"])
           /\ UNCHANGED <<pending, crossed>>
        \/ /\ s \notin active /\ \A i \in DOMAIN pending : pending[i] # s
           /\ s \in factories
           /\ pending' = Append(pending, s)
           /\ Move(t, [Top(t) EXCEPT !.at = "factory"]) /\ Crossed(t) /\ UNCHANGED thrown
  /\ UNCHANGED <<active, factories, startOrder, asked, dying, down>>

\* The factory requests its next dependency.
Depend(t) ==
  /\ At(t, "factory") /\ Top(t).done < Len(Deps[Top(t).id])
  /\ Enter(t, Deps[Top(t).id][Top(t).done + 1])
  /\ UNCHANGED <<active, factories, startOrder, pending, asked, thrown, dying, down, crossed>>

\* The factory returns the service.  What comes off pending_services is its last entry,
\* whosever it is.
Constructed(t) ==
  /\ At(t, "factory") /\ Top(t).done = Len(Deps[Top(t).id])
  /\ active' = active \cup {Top(t).id}
  /\ startOrder' = Append(startOrder, Top(t).id)
  /\ pending' = Front(pending)
  /\ Leave(t)
  /\ UNCHANGED <<factories, asked, thrown, dying, down, crossed>>

\* The factory throws.
FactoryFails(t) ==
  /\ At(t, "factory") /\ Top(t).done = Len(Deps[Top(t).id])
  /\ Throw(t, "factory")
  /\ UNCHANGED <<active, factories, startOrder, pending, frames, asked, dying, down, crossed>>

\* The exception leaves one call: the calls that had reached their factory take the
\* last entry off pending_services.
Unwind(t) ==
  /\ thrown[t] # "none"
  /\ IF frames[t] = <<>> THEN Throw(t, "none") /\ UNCHANGED <<pending, frames>>
     ELSE /\ pending' = IF Top(t).at = "factory" THEN Front(pending) ELSE pending
          /\ frames' = [frames EXCEPT ![t] = Front(@)]
          /\ UNCHANGED thrown
  /\ UNCHANGED <<active, factories, startOrder, asked, dying, down, crossed>>
-----------------------------------------------------------------------------
\* ~ServiceLocator, when nobody requests services any more.
Shutdown ==
  /\ ~down /\ \A t \in Callers : frames[t] = <<>>
  /\ down' = TRUE
  /\ UNCHANGED <<active, factories, startOrder, pending, frames, asked, thrown, dying, crossed>>

\* (mutant) In the order of the start.
DestroyFirst ==
  /\ down /\ dying = {} /\ startOrder # <<>>
  /\ active' = active \ {startOrder[1]} /\ dying' = {startOrder[1]}
  /\ startOrder' = Tail(startOrder)
  /\ UNCHANGED <<factories, pending, frames, asked, thrown, down, crossed>>

\* Takes the next service, last started first, out of the set (one that crossing calls
\* started twice is gone the second time: undefined, and the end of the model) ...
DestroyNext ==
  /\ down /\ dying = {} /\ startOrder # <<>> /\ Last(startOrder) \in active
  /\ active' = active \ {Last(startOrder)} /\ dying' = {Last(startOrder)}
  /\ startOrder' = Front(startOrder)
  /\ UNCHANGED <<factories, pending, frames, asked, thrown, down, crossed>>

\* ... and runs its destructor, which may call findService.
Destroyed ==
  /\ dying # {} /\ dying' = {}
  /\ UNCHANGED <<active, factories, startOrder, pending, frames, asked, thrown, down, crossed>>
-----------------------------------------------------------------------------
Steps(t) ==
  Find(t) \/ Start(t) \/ Depend(t) \/ Constructed(t) \/ FactoryFails(t) \/ Unwind(t)

Next ==
  \/ \E s \in Services : Register(s) \/ \E t \in Callers : Request(t, s)
  \/ \E t \in Callers : Steps(t)
  \/ Shutdown \/ DestroyNext \/ Destroyed

Spec == Init /\ [][Next]_vars
-----------------------------------------------------------------------------
(* Properties                                                              *)

\* Services that s needs, directly or not: what is in every set that holds what its
\* members need, and what s does.
Closed(S) == \A s \in S : ToSet(Deps[s]) \subseteq S
Needs(s) ==
  {d \in Services : \A S \in SUBSET Services : Closed(S) /\ ToSet(Deps[s]) \subseteq S => d \in S}

\* What a service needs is active, was started before it, and outlives it: a
\* destructor finds its dependencies ("any service can use its dependencies correctly
\* while destroying").  A failed start leaves nothing pending.
DependenciesOutlive ==
  /\ \A s \in active \cup dying : Needs(s) \subseteq active /\ s \notin Needs(s)
  /\ \A i, j \in DOMAIN startOrder : startOrder[j] \in Needs(startOrder[i]) => j < i
  /\ ToSet(startOrder) = active /\ IsInjective(startOrder)
  /\ (\A t \in Callers : frames[t] = <<>>) => pending = <<>>

\* "A circular dependency occurs if and only if a single ID is added to this set
\* twice" (service_locator.cpp:128): a request fails as circular only when the service
\* needs itself.
CircularOnlyIfCircular ==
  \A t \in Callers :
    thrown[t] = "circular" /\ frames[t] # <<>> /\ Top(t).at = "out" =>
      Top(t).id \in Needs(Top(t).id)

\* Whoever starts what, and however calls cross: a service is started only after all that
\* it needs, and what is active was started and is not forgotten before the end.
StartedAfterNeeds ==
  /\ \A i \in DOMAIN startOrder : \A d \in Needs(startOrder[i]) :
       \E j \in 1 .. i - 1 : startOrder[j] = d
  /\ ~ down => ToSet(startOrder) = active

\* What starts and failed starts leave behind, and what ends them, for calls of several
\* threads of which none looks at pending_services while another thread starts a service.
\* (Calls that cross in this way take the entry of the other for a circle, and its pop for
\* their own: CircularOnlyIfCircular is false of them.)
StartsSound ==
  /\ StartedAfterNeeds
  /\ ~ crossed => DependenciesOutlive /\ CircularOnlyIfCircular
=============================================================================
