------------------------------ MODULE FileEvent ------------------------------
(***************************************************************************)
(* Event::FileEventImpl (FileEventImpl.cpp): a file event that reports the *)
(* readiness of a descriptor and the events injected by activate(), on top *)
(* of one libevent event for the descriptor (raw_event_) and one           *)
(* schedulable callback (activation_cb_, SchedulableCbImpl.cpp), driven by *)
(* the iterations of the libevent loop.  Other events of the same loop run *)
(* in between and may call the file event.                                 *)
(***************************************************************************)
EXTENDS FiniteSets

CONSTANTS
  ReadyType,      \* FileReadyType: "Read", "Write", "Closed"
  Platforms       \* PlatformDefaultTriggerType of the builds considered

\* On a build that does not emulate edges the trigger "EmulatedEdge" cannot be
\* used, so the trigger of an event tells which build it is part of.
Trigger == {"Level"} \cup Platforms

ASSUME FileEventAssumption ==
  /\ ReadyType \subseteq {"Read", "Write", "Closed"}
  /\ Platforms \subseteq {"Edge", "EmulatedEdge"}

VARIABLES
  exists,       \* not destroyed yet
  trigger,      \* trigger_
  enabled,      \* enabled_events_, the mask raw_event_ is registered with
  injected,     \* injected_activation_events_
  timer,        \* activation_cb_ is a pending zero-delay timer
  active,       \* activation_cb_ is on the work list
  what,         \* the events raw_event_ is on the work list with, {} if it is not
  ready,        \* kernel: what the descriptor is ready for
  edge,         \* kernel: an edge-triggered descriptor has something to report
  phase,        \* the loop: "poll", "work", "cb" (in cb_), "other" (in the
                \* callback of some other event)
  reported,     \* history: the argument of the last cb_(events)
  owed,         \* history: activated, and since then neither reported nor dropped
                \* by setEnabled()
  told          \* history: reported since it became ready and since the last setEnabled()

vars == <<exists, trigger, enabled, injected, timer, active, what, ready, edge, phase,
          reported, owed, told>>

TypeOK ==
  /\ exists \in BOOLEAN /\ timer \in BOOLEAN /\ active \in BOOLEAN /\ edge \in BOOLEAN
  /\ trigger \in Trigger
  /\ {enabled, injected, what, ready, reported, owed, told} \subseteq SUBSET ReadyType
  /\ phase \in {"poll", "work", "cb", "other"}

\* The constructor: assignEvents(), event_add().
Init ==
  /\ exists = TRUE
  /\ trigger \in Trigger
  /\ enabled \in SUBSET ReadyType
  /\ ready \in SUBSET ReadyType
  /\ injected = {} /\ timer = FALSE /\ active = FALSE /\ what = {}
  /\ edge = (ready \cap enabled # {})
  /\ phase = "poll"
  /\ reported = {} /\ owed = {} /\ told = {}

------------------------------------------------------------------------------
(* Helpers of the class *)

\* The function is called from the loop's thread, in some callback.
UserCode == exists /\ phase \in {"cb", "other"}

\* SchedulableCallbackImpl::enabled()
CallbackEnabled == timer \/ active

\* Mutant of UpdateEvents: the update is skipped for every trigger type.
UpdateEventsSkipped(mask) ==
  IF mask = enabled
  THEN UNCHANGED <<enabled, what, edge>>
  ELSE /\ enabled' = mask
       /\ what' = {}
       /\ edge' = (ready \cap mask # {})

\* updateEvents(): the early return, or event_del, assignEvents, event_add.
\* event_del takes raw_event_ off the work list, and adding the descriptor again
\* makes the kernel look at its state again.
UpdateEvents(mask) ==
  IF mask = enabled /\ trigger # "Edge"
  THEN UNCHANGED <<enabled, what, edge>>
  ELSE /\ enabled' = mask
       /\ what' = {}
       /\ edge' = (ready \cap mask # {})

\* Mutant of MergeInjectedEventsAndRunCb: activation_cb_ is not cancelled.
MergeWithoutCancel(events) ==
  /\ reported' = events \cup injected
  /\ injected' = {}
  /\ owed' = {}
  /\ phase' = "cb"
  /\ timer' = timer
  /\ IF trigger = "EmulatedEdge"
     THEN enabled' = enabled \ (reported' \cap {"Read", "Write"})
     ELSE enabled' = enabled
  /\ told' = told \cup reported'

\* mergeInjectedEventsAndRunCb() up to the call of cb_.  The emulated edge
\* trigger unregisters what it reports, and that event is off the work list.
MergeInjectedEventsAndRunCb(events) ==
  /\ reported' = events \cup injected
  /\ injected' = {}
  /\ owed' = {}
  /\ phase' = "cb"
  /\ timer' = (timer /\ injected = {})
  /\ IF trigger = "EmulatedEdge"
     THEN enabled' = enabled \ (reported' \cap {"Read", "Write"})
     ELSE enabled' = enabled
  /\ told' = told \cup reported'

------------------------------------------------------------------------------
(* Operations *)

\* Mutant of Activate: the events are merged before the emptiness test.
ActivateUnscheduled(events) ==
  /\ UserCode
  /\ injected' = injected \cup events
  /\ owed' = owed \cup events
  /\ UNCHANGED <<exists, trigger, enabled, timer, active, what, ready, edge, phase,
                 reported, told>>

\* activate(): scheduleCallbackNextIteration() for the first injected event.
Activate(events) ==
  /\ UserCode
  /\ timer' = (timer \/ (injected = {} /\ ~CallbackEnabled))
  /\ injected' = injected \cup events
  /\ owed' = owed \cup events
  /\ UNCHANGED <<exists, trigger, enabled, active, what, ready, edge, phase, reported,
                 told>>

\* Mutant of SetEnabled: the injected events are not cleared.
SetEnabledKeepsInjected(mask) ==
  /\ UserCode
  /\ owed' = {} /\ told' = {}
  /\ UpdateEvents(mask)
  /\ UNCHANGED <<exists, trigger, injected, timer, active, ready, phase, reported>>

\* setEnabled(): pending injected events are cleared, then updateEvents().
SetEnabled(mask) ==
  /\ UserCode
  /\ injected' = {}
  /\ timer' = (timer /\ injected = {})
  /\ active' = (active /\ injected = {})
  /\ owed' = {} /\ told' = {}
  /\ UpdateEvents(mask)
  /\ UNCHANGED <<exists, trigger, ready, phase, reported>>

\* registerEventIfEmulatedEdge() and unregisterEventIfEmulatedEdge(): compiled
\* out unless the platform emulates edges.
RegisterIfEmulatedEdge(event) ==
  /\ UserCode
  /\ trigger = "EmulatedEdge"
  /\ \/ UpdateEvents(enabled \cup {event})
     \/ UpdateEvents(enabled \ {event})
  /\ UNCHANGED <<exists, trigger, injected, timer, active, ready, phase, reported, owed,
                 told>>

\* ~FileEventImpl(): both libevent events are deleted.
Destroy ==
  /\ UserCode
  /\ exists' = FALSE
  /\ enabled' = {} /\ injected' = {} /\ timer' = FALSE /\ active' = FALSE
  /\ what' = {} /\ edge' = FALSE /\ owed' = {}
  /\ UNCHANGED <<trigger, ready, phase, reported, told>>

------------------------------------------------------------------------------
(* The kernel *)

\* Data or buffer space arrives, or the peer closes.
BecomesReady(e) ==
  /\ e \notin ready
  /\ ready' = ready \cup {e}
  /\ edge' = (edge \/ e \in enabled)
  /\ told' = told \ {e}
  /\ UNCHANGED <<exists, trigger, enabled, injected, timer, active, what, phase,
                 reported, owed>>

\* A callback reads or writes until the descriptor would block.
Exhausted(e) ==
  /\ phase \in {"cb", "other"}
  /\ e \in ready \ {"Closed"}
  /\ ready' = ready \ {e}
  /\ UNCHANGED <<exists, trigger, enabled, injected, timer, active, what, edge, phase,
                 reported, owed, told>>

------------------------------------------------------------------------------
(* The loop *)

\* Poll for descriptors, then move the expired timers to the work list.
Poll ==
  /\ phase = "poll"
  /\ phase' = "work"
  /\ what' = IF trigger = "Edge" /\ ~edge THEN {} ELSE ready \cap enabled
  /\ edge' = FALSE
  /\ active' = timer
  /\ timer' = FALSE
  /\ UNCHANGED <<exists, trigger, enabled, injected, ready, reported, owed, told>>

\* The callback of raw_event_: descriptors come before timers in the work list.
RunRawEvent ==
  /\ phase = "work" /\ what # {}
  /\ what' = {}
  /\ active' = (active /\ injected = {})
  /\ MergeInjectedEventsAndRunCb(what)
  /\ UNCHANGED <<exists, trigger, ready, edge>>

\* The callback of activation_cb_.
RunActivation ==
  /\ phase = "work" /\ what = {} /\ active
  /\ active' = FALSE
  /\ MergeInjectedEventsAndRunCb({})
  /\ UNCHANGED <<exists, trigger, what, ready, edge>>

\* Any other event of the loop runs, before or after those of this file.
RunOther ==
  /\ phase = "work"
  /\ phase' = "other"
  /\ UNCHANGED <<exists, trigger, enabled, injected, timer, active, what, ready, edge,
                 reported, owed, told>>

Return ==
  /\ phase \in {"cb", "other"}
  /\ phase' = "work"
  /\ UNCHANGED <<exists, trigger, enabled, injected, timer, active, what, ready, edge,
                 reported, owed, told>>

IterationDone ==
  /\ phase = "work" /\ what = {} /\ ~active
  /\ phase' = "poll"
  /\ UNCHANGED <<exists, trigger, enabled, injected, timer, active, what, ready, edge,
                 reported, owed, told>>

LoopStep == Poll \/ RunRawEvent \/ RunActivation \/ Return \/ IterationDone

Next ==
  \/ LoopStep
  \/ RunOther
  \/ \E events \in (SUBSET ReadyType) \ {{}} : Activate(events)
  \/ \E mask \in SUBSET ReadyType : SetEnabled(mask)
  \/ \E e \in ReadyType :
       \/ RegisterIfEmulatedEdge(e)
       \/ BecomesReady(e)
       \/ Exhausted(e)
  \/ Destroy

Spec == Init /\ [][Next]_vars

\* The loop keeps iterating and callbacks return; an iteration's work list also
\* runs dry, however many other events there are.
FairSpec ==
  /\ Spec
  /\ WF_vars(Poll) /\ WF_vars(Return)
  /\ SF_vars(RunRawEvent) /\ SF_vars(RunActivation) /\ SF_vars(IterationDone)
------------------------------------------------------------------------------
(* Properties *)

\* FileEventImpl.h: activation_cb_ is "Armed iff pending_activation_events_ != 0",
\* through merging with descriptor events, cancelling and re-arming inside the
\* callback: an injected event never waits for ever, and the activation never
\* runs with nothing to report.
ArmedIffInjected == (injected # {}) <=> CallbackEnabled

\* cb_ is never called without an event, and reports only events of the mask in
\* force or events activated since the last setEnabled(): a result of the poll
\* that setEnabled() overtook is never delivered.
ReportsOnlyRelevant ==
  [][phase # "cb" /\ phase' = "cb" =>
       reported' # {} /\ reported' \subseteq enabled \cup owed]_vars

\* Edge trigger: a descriptor that is ready for something enabled, of which the
\* callback was not told since it became ready or since setEnabled(), is still
\* going to be reported: re-registering may not lose an edge, and setEnabled()
\* with an unchanged mask has to make up for the events it drops.
NoLostEdge ==
  (exists /\ trigger = "Edge") =>
    \A e \in (ready \cap enabled) \ told : edge \/ e \in what

\* Each activated event is reported or dropped by setEnabled().
ActivatedIsReported == \A e \in ReadyType : (e \in owed) ~> (e \notin owed)
==============================================================================
