------------------------------- MODULE Service --------------------------------
(***************************************************************************)
(* The process: app.Run brings it up, registers it with Cross, serves      *)
(* pushes and shuts down.  NotifyEvent (EventReceiver) starts the dispatch *)
(* goroutines; a dispatch that completes a Job publishes through the       *)
(* registrar, and Cross pushes that event in turn: functions.job.completed *)
(* of compile-flutter triggers merge-flutter-branch.                       *)
(*                                                                         *)
(* Cross and the operating system are external.  Cross routes events to    *)
(* the service as long as heartbeats come through.  It keeps pushing an    *)
(* event until a push is acknowledged; a process that does not serve       *)
(* refuses the push.  Of the Jobs of one event only the first one's        *)
(* completion is followed.                                                 *)
(***************************************************************************)
EXTENDS EventReceiver, Sequences

CONSTANTS External,   \* the events Cross has from other services
          Functions,  \* the manifests, in the order of ReadDir
          NoFunction, \* no function
          Config,     \* the environments the service may be run in
          MaxStops,   \* bound on graceful shutdowns
          MaxMishaps  \* bound on what fails outside NotifyEvent

\* An event is its topic and the "key":"value" literals its payload contains.
ASSUME ServiceAssumption ==
    /\ External \subseteq Event
    /\ Config \subseteq [agency : BOOLEAN, cross : BOOLEAN]
    /\ MaxStops \in Nat
    /\ MaxMishaps \in Nat

VARIABLES config,    \* whether AGENCY_ID and CROSS_GRPC_ADDR are set
          phase,     \* how far app.Run is
          pub,       \* this process's registrar, or nil
          routes,    \* whether Cross routes events to the service
          raised,    \* the events Cross has to push
          looking,   \* looking[e]: the dispatches of e that are in Lookup
          running,   \* running[e]: the dispatches of e that have made a Job
          dealt,     \* the events a dispatch has dealt with
          stops,     \* the number of graceful shutdowns completed
          mishaps    \* the number of failures outside NotifyEvent

lifeVars == <<config, phase, pub, stops>>
dispatchVars == <<raised, looking, running, dealt>>
serviceVars == <<vars, lifeVars, routes, dispatchVars, mishaps>>
-----------------------------------------------------------------------------
Phase == {"down", "wiring", "serving", "stopping"}

\* Registrar.Publish: strings and maps of strings keep what they contain, any
\* other payload is sent as "".
Encoded(payload) == IF payload.type \in {"string", "map"} THEN payload.literals ELSE {}

\* The event manager.publish raises when function f has completed a Job.
JobCompleted(f) ==
    [topic |-> "functions.job.completed",
     payload |-> Encoded([type |-> "map", literals |-> {<<"function_name", f>>}])]

Triggered(e) ==
    {i \in DOMAIN Functions : /\ Functions[i].trigger = e.topic
                              /\ Functions[i].match \subseteq e.payload}

\* Lookup in a directory nobody writes to (BinaryRunner!SteadyFunctionIsFound).
Lookup(e) ==
    IF Triggered(e) = {} THEN NoFunction
    ELSE Functions[CHOOSE i \in Triggered(e) : \A j \in Triggered(e) : i <= j].name

ServiceInit ==
    /\ Init
    /\ config \in Config
    /\ phase = "down"
    /\ pub = "nil"
    /\ routes = "lapsed"
    /\ raised = External
    /\ looking = [e \in Event |-> 0]
    /\ running = [e \in Event |-> 0]
    /\ dealt = {}
    /\ stops = 0
    /\ mishaps = 0

Mishap == mishaps < MaxMishaps /\ mishaps' = mishaps + 1
-----------------------------------------------------------------------------
(* app.Run *)

BringUp(publisher) ==
    /\ phase = "down"
    /\ phase' = "wiring"
    /\ pub' = publisher
    /\ UNCHANGED <<vars, config, stops, routes, dispatchVars>>

\* The registrar is made whether or not there is an address.
StartUpRegistered == BringUp("registrar") /\ UNCHANGED mishaps

\* With CROSS_GRPC_ADDR the registrar is made first, and its heartbeat started;
\* without it the service does without.
StartUp == BringUp(IF config.cross THEN "registrar" ELSE "nil") /\ UNCHANGED mishaps

\* registrar.New fails: "continuing without registration", for all of this life.
StartUpUnregistered == config.cross /\ Mishap /\ BringUp("nil")

\* NewBackend or Listen fails, and Run returns the error.
StartUpFails ==
    /\ Mishap
    /\ phase = "wiring"
    /\ phase' = "down"
    /\ pub' = "nil"
    /\ UNCHANGED <<vars, config, stops, routes, dispatchVars>>

Listen ==
    /\ phase = "wiring"
    /\ phase' = "serving"
    /\ UNCHANGED <<vars, config, pub, stops, routes, dispatchVars, mishaps>>

\* There is the initial ping only, and the loop behind it does not run.
HeartbeatInitially ==
    /\ pub = "registrar"
    /\ phase = "wiring"
    /\ routes' = "live"
    /\ UNCHANGED <<vars, lifeVars, dispatchVars, mishaps>>

\* The heartbeat does not wait for the listener, and ends with ctx.
Heartbeat ==
    /\ pub = "registrar"
    /\ phase \in {"wiring", "serving"}
    /\ routes' = "live"
    /\ UNCHANGED <<vars, lifeVars, dispatchVars, mishaps>>

\* No heartbeat has come through for a while.
Lapse ==
    /\ routes = "live"
    /\ routes' = "lapsed"
    /\ UNCHANGED <<vars, lifeVars, dispatchVars, mishaps>>

\* SIGTERM cancels ctx: no further push is accepted, handlers go on.
Signal ==
    /\ phase = "serving"
    /\ stops < MaxStops
    /\ phase' = "stopping"
    /\ UNCHANGED <<vars, config, pub, stops, routes, dispatchVars, mishaps>>

\* The process is gone, with the dispatches that were under way.
Gone ==
    /\ phase' = "down"
    /\ pub' = "nil"
    /\ looking' = [e \in Event |-> 0]
    /\ running' = [e \in Event |-> 0]
    /\ UNCHANGED <<config, routes, raised, dealt, mishaps>>

\* The handlers are not waited for.
ExitAtOnce ==
    /\ phase = "stopping"
    /\ stops' = stops + 1
    /\ handler' = [h \in Handler |-> Idle]
    /\ Gone
    /\ UNCHANGED <<received, dispatched, acked, faults>>

\* RunWithGracefulShutdown has waited for the handlers; nobody waits for the
\* dispatches.
Exit ==
    /\ phase = "stopping"
    /\ \A h \in Handler : handler[h] = Idle
    /\ stops' = stops + 1
    /\ Gone
    /\ UNCHANGED vars

\* The process is killed, or 30 seconds of grace are over.
Kill == phase # "down" /\ Restart /\ Gone /\ UNCHANGED stops
-----------------------------------------------------------------------------
(* NotifyEvent and Dispatch *)

\* Without AGENCY_ID there is no EventReceiver, and without a listener no answer.
CrossPushes(h, e) ==
    /\ e \in raised
    /\ routes = "live" /\ phase = "serving" /\ config.agency
    /\ Push(h, e)
    /\ UNCHANGED <<lifeVars, routes, dispatchVars, mishaps>>

Handle(h) ==
    /\ \/ Duplicate(h) \/ FirstSeen(h) \/ LookupFails(h) \/ Record(h) \/ RecordFails(h)
       \/ Answer(h) \/ AnswerLost(h)
    /\ UNCHANGED <<lifeVars, routes, dispatchVars, mishaps>>

\* The dispatch is given the context of the push, and ends with it.
GoDispatchInContext(h) ==
    /\ StartDispatch(h)
    /\ UNCHANGED <<lifeVars, routes, dispatchVars, mishaps>>

\* go dispatcher.Dispatch(context.Background(), ...)
GoDispatch(h) ==
    /\ StartDispatch(h)
    /\ looking' = [looking EXCEPT ![Of(h)] = @ + 1]
    /\ UNCHANGED <<lifeVars, routes, raised, running, dealt, mishaps>>

LookupMisses(e) ==
    /\ looking[e] > 0
    /\ Lookup(e) = NoFunction
    /\ looking' = [looking EXCEPT ![e] = @ - 1]
    /\ dealt' = dealt \cup {e}
    /\ UNCHANGED <<vars, lifeVars, routes, raised, running, mishaps>>

CreateJob(e) ==
    /\ looking[e] > 0
    /\ Lookup(e) # NoFunction
    /\ looking' = [looking EXCEPT ![e] = @ - 1]
    /\ running' = [running EXCEPT ![e] = @ + 1]
    /\ UNCHANGED <<vars, lifeVars, routes, raised, dealt, mishaps>>

\* CreateJob, StartJob, FailJob or CompleteJob fails: the dispatch logs it and ends.
GiveUp(e) ==
    /\ Mishap
    /\ \/ /\ looking[e] > 0
          /\ Lookup(e) # NoFunction
          /\ looking' = [looking EXCEPT ![e] = @ - 1]
          /\ UNCHANGED running
       \/ /\ running[e] > 0
          /\ running' = [running EXCEPT ![e] = @ - 1]
          /\ UNCHANGED looking
    /\ UNCHANGED <<vars, lifeVars, routes, raised, dealt>>

Settled(e) ==
    /\ running[e] > 0
    /\ running' = [running EXCEPT ![e] = @ - 1]
    /\ dealt' = dealt \cup {e}
    /\ UNCHANGED <<vars, lifeVars, routes, looking>>

\* The Job is completed and functions.job.completed published.
Complete(e) ==
    /\ Settled(e)
    /\ pub = "registrar"
    /\ raised' = raised \cup ({JobCompleted(Lookup(e))} \cap Event)
    /\ UNCHANGED mishaps

\* The Job is failed, or completed with nobody to publish to, or the publish fails,
\* which is ignored.
SettleUnheard(e) == Settled(e) /\ UNCHANGED <<raised, mishaps>>

DispatchStep(e) ==
    LookupMisses(e) \/ CreateJob(e) \/ GiveUp(e) \/ Complete(e) \/ SettleUnheard(e)

HandlerStep(h) == Handle(h) \/ GoDispatch(h)
Start == StartUp \/ StartUpUnregistered

ServiceNext ==
    \/ Start \/ StartUpFails \/ Listen \/ Heartbeat \/ Lapse
    \/ Signal \/ Exit \/ Kill
    \/ \E h \in Handler : HandlerStep(h) \/ \E e \in Event : CrossPushes(h, e)
    \/ \E e \in Event : DispatchStep(e)

ServiceSpec == ServiceInit /\ [][ServiceNext]_serviceVars

(***************************************************************************)
(* A process that ended is started again and comes up, its heartbeat runs, *)
(* its handlers and dispatches run and what they wait for ends, the        *)
(* function's binary included.  Cross keeps pushing what it has to push.   *)
(***************************************************************************)
ServiceFairSpec ==
    /\ ServiceSpec
    /\ WF_serviceVars(Start) /\ WF_serviceVars(Listen) /\ WF_serviceVars(Heartbeat)
    /\ WF_serviceVars(Exit)
    /\ \A h \in Handler : WF_serviceVars(HandlerStep(h))
    /\ \A e \in Event : /\ WF_serviceVars(DispatchStep(e))
                        /\ SF_serviceVars(\E h \in Handler : CrossPushes(h, e))
-----------------------------------------------------------------------------
(* A process that is down has no handler and no dispatch at work. *)
ServiceTypeOK ==
    /\ config \in Config
    /\ phase \in Phase
    /\ pub \in {"nil", "registrar"}
    /\ pub = "registrar" => config.cross /\ phase # "down"
    /\ routes \in {"live", "lapsed"}
    /\ raised \subseteq Event
    /\ looking \in [Event -> Nat]
    /\ running \in [Event -> Nat]
    /\ dealt \subseteq Event
    /\ stops \in 0..MaxStops
    /\ mishaps \in 0..MaxMishaps
    /\ phase = "stopping" => stops < MaxStops
    /\ phase \in {"down", "wiring"} =>
          /\ \A h \in Handler : handler[h] = Idle
          /\ \A e \in Event : looking[e] = 0 /\ running[e] = 0

(***************************************************************************)
(* The service delivers as EventDelivery promises: what it acknowledges it *)
(* has heard of, and what it has heard of is handed from the handler to    *)
(* the dispatch and dealt with, unless the process ends or a call fails.   *)
(***************************************************************************)
AwaitsDispatch(e) == \E h \in Handler : handler[h] = [at |-> "dispatch", event |-> e]
Owed(e) == AwaitsDispatch(e) \/ looking[e] > 0 \/ running[e] > 0

FateOf(e) ==
    IF e \in dealt THEN "dealt"
    ELSE IF Owed(e) THEN "owed"
    ELSE IF received[e] > 0 THEN "forgotten"
    ELSE "unheard"

Fates == [e \in Event |-> FateOf(e)]
Troubles == faults["restart"] + stops + mishaps

Delivery == INSTANCE EventDelivery WITH fate <- Fates, trouble <- Troubles

DeliverySpec == Delivery!Spec

(***************************************************************************)
(* An event that is raised, by another service or by a function's Job, is  *)
(* dealt with in the end, or forgotten over trouble, however often the     *)
(* process stops and starts and the routes lapse, unless the service goes  *)
(* on without registration for good.                                       *)
(***************************************************************************)
EventuallyServed ==
    \/ ~config.agency
    \/ <>[](pub = "nil")
    \/ \A e \in Event : e \in raised ~> FateOf(e) \in {"dealt", "forgotten"}
===============================================================================
