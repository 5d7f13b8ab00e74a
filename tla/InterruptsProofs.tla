-------------------------- MODULE InterruptsProofs --------------------------
(***************************************************************************)
(* NoReentry and WorkConserving hold for any lines and processors.  Both   *)
(* rest on what one dispatch does, wherever it is called from: the lemmas  *)
(* about Dispatch say it once, and the proof of each operation of the      *)
(* router checks that what it hands to Dispatch meets their hypotheses.    *)
(***************************************************************************)
EXTENDS Interrupts, FiniteSetTheorems, WellFoundedInduction, TLAPS

AllLines == Lines \cup IpiLines

(* The types of what a dispatch works on. *)
Typed(p, a, en, rt, c, h) ==
    /\ p \subseteq Lines /\ a \subseteq Lines /\ en \subseteq Lines
    /\ rt \in [Lines -> Targets]
    /\ c \in [Targets -> SUBSET AllLines]
    /\ h \in [Targets -> AllLines \cup {NoLine}]

(* NoReentry, and what makes it inductive: the line of a running handler   *)
(* is active, is routed to its processor and has left the controller.      *)
Exclusive(a, rt, c, h) ==
    /\ \A l, m \in a : rt[l] = rt[m] => l = m
    /\ \A t \in Targets : \A l \in c[t] \cap Lines : l \in a /\ rt[l] = t
    /\ \A t \in Targets : h[t] \in Lines => h[t] \in a /\ rt[h[t]] = t /\ h[t] \notin c[t]

(* WorkConserving, for the processors outside T. *)
ConservesExcept(p, a, en, rt, T) ==
    \A l \in p \cap en : rt[l] \notin T => \E m \in a : rt[m] = rt[l]

IrqInductive ==
    /\ Typed(pending, active, enabled, routes, ctl, handling)
    /\ selected_line \in Lines
    /\ Exclusive(active, routes, ctl, handling)
    /\ ConservesExcept(pending, active, enabled, routes, {})

-----------------------------------------------------------------------------
(* A set of naturals that is not empty has a least element: of the finite  *)
(* sets of those below one of its elements, one is minimal, and it has to  *)
(* be empty.                                                               *)
LEMMA LeastLine ==
    ASSUME NEW S, S \subseteq Nat, S # {}
    PROVE  \E x \in S : \A y \in S : x <= y
<1> DEFINE Below(x) == {y \in S : y < x}
           F == {Below(x) : x \in S}
<1>1. \A x \in S : Below(x) \in SUBSET Nat /\ \A y \in Below(x) : y <= x
    <2>1. \A x \in S : x \in Int
        OBVIOUS
    <2>2. \A x \in S : Below(x) \in SUBSET Nat
        OBVIOUS
    <2>3. \A x \in S : \A y \in Below(x) : y <= x
        BY <2>1
    <2> QED BY <2>2, <2>3
<1>2. \A x \in S : IsFiniteSet(Below(x))
    BY <1>1, FS_BoundedSetOfNaturals
<1>3. F \subseteq FiniteSubsetsOf(Nat) /\ F # {}
    BY <1>1, <1>2 DEF FiniteSubsetsOf
<1>4. \E m \in F : \A d \in F : ~(<<d, m>> \in StrictSubsetOrdering(Nat))
    <2> HIDE DEF F
    <2> QED BY <1>3, FS_StrictSubsetOrderingWellFounded, WFMin
<1>5. PICK x \in S : \A y \in S : ~(<<Below(y), Below(x)>> \in StrictSubsetOrdering(Nat))
    BY <1>4
<1>6. ASSUME NEW y \in S, y < x
      PROVE  FALSE
    <2>1. Below(y) \subseteq Below(x)
        <3>1. ASSUME NEW z \in S, z < y
              PROVE  z < x
            <4>1. x \in Int /\ y \in Int /\ z \in Int
                OBVIOUS
            <4> QED BY <3>1, <4>1, <1>6, SMT
        <3> QED BY <3>1, Zenon
    <2>2. y \in Below(x) /\ y \notin Below(y)
        BY <1>6
    <2>3. <<Below(y), Below(x)>> \in (SUBSET Nat) \X (SUBSET Nat)
        BY <1>1
    <2> HIDE DEF Below
    <2>4. <<Below(y), Below(x)>> \in StrictSubsetOrdering(Nat)
        BY <2>1, <2>2, <2>3 DEF StrictSubsetOrdering
    <2> QED BY <2>4, <1>5
<1> QED BY <1>6

(* The external lines and the inter-processor lines are disjoint. *)
LEMMA LinesDisjoint ==
    Lines \cap IpiLines = {} /\ NoLine \notin Lines /\ NoLine \notin IpiLines
BY LineAssumption, SMT DEF NoLine

(* A dispatch keeps the types. *)
LEMMA DispatchTyped ==
    ASSUME NEW p, NEW a, NEW en, NEW rt, NEW c, NEW h, NEW T,
           Typed(p, a, en, rt, c, h), Dispatch(p, a, en, rt, c, T)
    PROVE  Typed(pending', active', en, rt, ctl', h)
<1> DEFINE k == Deliverable(p, a, en, rt, T)
<1>1. k \subseteq p
    BY DEF Deliverable
<1>2. pending' = p \ k /\ active' = a \cup k
      /\ ctl' = [t \in Targets |-> c[t] \cup {l \in k : rt[l] = t}]
    BY DEF Dispatch, Move
<1> HIDE DEF k
<1>3. pending' \subseteq Lines /\ active' \subseteq Lines
    BY <1>1, <1>2 DEF Typed
<1>4. ctl' \in [Targets -> SUBSET AllLines]
    BY <1>1, <1>2 DEF Typed, AllLines
<1> QED BY <1>3, <1>4 DEF Typed

(* A dispatch gives a processor a line only if it has none. *)
LEMMA DispatchExclusive ==
    ASSUME NEW p, NEW a, NEW en, NEW rt, NEW c, NEW h, NEW T,
           Typed(p, a, en, rt, c, h), Exclusive(a, rt, c, h),
           Dispatch(p, a, en, rt, c, T)
    PROVE  Exclusive(active', rt, ctl', h)
<1> DEFINE k == Deliverable(p, a, en, rt, T)
<1>1. pending' = p \ k /\ active' = a \cup k
      /\ ctl' = [t \in Targets |-> c[t] \cup {l \in k : rt[l] = t}]
    BY DEF Dispatch, Move
<1>2. k \subseteq p \cap en /\ (\A l \in k : \A m \in a : rt[m] # rt[l])
    BY DEF Deliverable
<1>3. \A l, m \in k : rt[l] = rt[m] => l <= m
    BY DEF Deliverable
<1> HIDE DEF k
<1>4. \A l, m \in k : rt[l] = rt[m] => l = m
    BY <1>2, <1>3, LineAssumption, SMT DEF Typed
<1>5. \A l, m \in active' : rt[l] = rt[m] => l = m
    BY <1>1, <1>2, <1>4 DEF Exclusive
<1>6. \A t \in Targets : \A l \in ctl'[t] \cap Lines : l \in active' /\ rt[l] = t
    BY <1>1 DEF Exclusive
<1>7. ASSUME NEW t \in Targets, h[t] \in Lines
      PROVE  h[t] \in active' /\ rt[h[t]] = t /\ h[t] \notin ctl'[t]
    <2>1. h[t] \in a /\ rt[h[t]] = t /\ h[t] \notin c[t]
        BY <1>7 DEF Exclusive
    <2>2. h[t] \notin k
        BY <2>1, <1>2
    <2> QED BY <2>1, <2>2, <1>1
<1> QED BY <1>5, <1>6, <1>7 DEF Exclusive

(* A dispatch leaves no processor of T without a line that it could have.  *)
LEMMA DispatchConserves ==
    ASSUME NEW p, NEW a, NEW en, NEW rt, NEW c, NEW h, NEW T,
           Typed(p, a, en, rt, c, h), ConservesExcept(p, a, en, rt, T),
           Dispatch(p, a, en, rt, c, T)
    PROVE  ConservesExcept(pending', active', en, rt, {})
<1> DEFINE k == Deliverable(p, a, en, rt, T)
<1>1. pending' = p \ k /\ active' = a \cup k
    BY DEF Dispatch, Move
<1>2. SUFFICES ASSUME NEW l \in p \cap en
               PROVE  \E m \in a \cup k : rt[m] = rt[l]
    BY <1>1 DEF ConservesExcept
<1>3. CASE \E m \in a : rt[m] = rt[l]
    BY <1>3
<1>4. CASE ~ \E m \in a : rt[m] = rt[l]
    <2> DEFINE S == {m \in p \cap en : rt[m] = rt[l]}
    <2>1. S \subseteq Nat /\ S # {}
        BY LineAssumption DEF Typed
    <2>2. PICK x \in S : \A y \in S : x <= y
        BY <2>1, LeastLine
    <2>3. rt[l] \in T
        BY <1>4 DEF ConservesExcept
    <2>4. x \in k
        BY <2>2, <2>3, <1>4 DEF Deliverable
    <2> QED BY <2>2, <2>4
<1> QED BY <1>3, <1>4

-----------------------------------------------------------------------------
(* A step that dispatches: what it hands to Dispatch is typed, exclusive   *)
(* and, outside the processors it dispatches to, conserves work.           *)
LEMMA DispatchStep ==
    ASSUME NEW p, NEW a, NEW en, NEW rt, NEW c, NEW T,
           Typed(p, a, en, rt, c, handling), Exclusive(a, rt, c, handling),
           ConservesExcept(p, a, en, rt, T),
           Dispatch(p, a, en, rt, c, T),
           enabled' = en, routes' = rt, handling' = handling, selected_line' \in Lines
    PROVE  IrqInductive'
<1>1. Typed(pending', active', en, rt, ctl', handling)
    BY DispatchTyped
<1>2. Exclusive(active', rt, ctl', handling)
    BY DispatchExclusive
<1>3. ConservesExcept(pending', active', en, rt, {})
    BY DispatchConserves
<1> QED BY <1>1, <1>2, <1>3 DEF IrqInductive, Typed, Exclusive, ConservesExcept

(* A line is raised, by a device or by the timer. *)
LEMMA RaiseKeeps ==
    ASSUME IrqInductive, NEW l \in Lines, interrupt_router_raise(l),
           UNCHANGED <<selected_line, handling>>
    PROVE  IrqInductive'
<1>1. CASE l \in active
    <2>1. pending' = pending \cup {l} /\ UNCHANGED <<active, ctl, enabled, routes>>
        BY <1>1 DEF interrupt_router_raise
    <2>2. Typed(pending', active', enabled', routes', ctl', handling')
        BY <2>1 DEF IrqInductive, Typed
    <2>3. Exclusive(active', routes', ctl', handling')
        BY <2>1 DEF IrqInductive, Exclusive
    <2>4. ConservesExcept(pending', active', enabled', routes', {})
        BY <2>1, <1>1 DEF IrqInductive, ConservesExcept
    <2> QED BY <2>2, <2>3, <2>4 DEF IrqInductive
<1>2. CASE l \notin active
    <2> DEFINE p == pending \cup {l}
    <2>1. Dispatch(p, active, enabled, routes, ctl, {routes[l]})
          /\ enabled' = enabled /\ routes' = routes
        BY <1>2 DEF interrupt_router_raise
    <2>2. Typed(p, active, enabled, routes, ctl, handling)
        BY DEF IrqInductive, Typed
    <2>3. ConservesExcept(p, active, enabled, routes, {routes[l]})
        BY DEF IrqInductive, ConservesExcept
    <2> HIDE DEF p
    <2> QED BY <2>1, <2>2, <2>3, DispatchStep DEF IrqInductive
<1> QED BY <1>1, <1>2

(* A device withdraws its line, the handler of which does not execute. *)
LEMMA WithdrawKeeps ==
    ASSUME IrqInductive, NEW l \in Lines, DeviceWithdraws(l)
    PROVE  IrqInductive'
<1>0. UNCHANGED <<selected_line, handling, enabled, routes>>
      /\ \A t \in Targets : handling[t] # l
    BY DEF DeviceWithdraws, interrupt_router_clear
<1>1. CASE l \in active
    <2> DEFINE p == pending \ {l}
               a == active \ {l}
               c == [ctl EXCEPT ![routes[l]] = @ \ {l}]
    <2>1. Dispatch(p, a, enabled, routes, c, {routes[l]})
        BY <1>1 DEF DeviceWithdraws, interrupt_router_clear
    <2>2. Typed(p, a, enabled, routes, c, handling)
        BY DEF IrqInductive, Typed
    <2>3. Exclusive(a, routes, c, handling)
        <3>1. \A t \in Targets : c[t] \subseteq ctl[t] /\ (t = routes[l] => l \notin c[t])
            BY DEF IrqInductive, Typed
        <3> HIDE DEF c
        <3>2. \A t \in Targets : \A m \in c[t] \cap Lines : m \in a /\ routes[m] = t
            BY <3>1 DEF IrqInductive, Exclusive
        <3>3. \A t \in Targets : handling[t] \in Lines =>
                 handling[t] \in a /\ routes[handling[t]] = t /\ handling[t] \notin c[t]
            BY <3>1, <1>0 DEF IrqInductive, Exclusive
        <3> QED BY <3>2, <3>3 DEF IrqInductive, Exclusive
    <2>4. ConservesExcept(p, a, enabled, routes, {routes[l]})
        BY DEF IrqInductive, ConservesExcept
    <2> HIDE DEF p, a, c
    <2> QED BY <2>1, <2>2, <2>3, <2>4, <1>0, DispatchStep DEF IrqInductive
<1>2. CASE l \notin active
    <2>1. pending' = pending \ {l} /\ UNCHANGED <<active, ctl>>
        BY <1>2 DEF DeviceWithdraws, interrupt_router_clear
    <2>2. Typed(pending', active', enabled', routes', ctl', handling')
        BY <2>1, <1>0 DEF IrqInductive, Typed
    <2>3. Exclusive(active', routes', ctl', handling')
        BY <2>1, <1>0 DEF IrqInductive, Exclusive
    <2>4. ConservesExcept(pending', active', enabled', routes', {})
        BY <2>1, <1>0 DEF IrqInductive, ConservesExcept
    <2> QED BY <2>2, <2>3, <2>4, <1>0 DEF IrqInductive
<1> QED BY <1>1, <1>2

(* The guest masks, unmasks, selects and reroutes lines. *)
LEMMA GuestWritesKeep ==
    ASSUME IrqInductive, GuestWrites
    PROVE  IrqInductive'
<1>0. UNCHANGED handling
    BY DEF GuestWrites
<1>1. ASSUME NEW mask \in SUBSET Lines, interrupt_router_set_enabled(mask), UNCHANGED selected_line
      PROVE  IrqInductive'
    <2>1. Dispatch(pending, active, mask, routes, ctl, Targets) /\ enabled' = mask /\ routes' = routes
        BY <1>1 DEF interrupt_router_set_enabled
    <2>2. Typed(pending, active, mask, routes, ctl, handling)
        BY DEF IrqInductive, Typed
    <2>3. ConservesExcept(pending, active, mask, routes, Targets)
        BY DEF IrqInductive, Typed, ConservesExcept
    <2> QED BY <2>1, <2>2, <2>3, <1>0, <1>1, DispatchStep DEF IrqInductive
<1>2. ASSUME NEW mask \in SUBSET Lines, WriteEnableClear(mask)
      PROVE  IrqInductive'
    <2>1. enabled' = enabled \ mask /\ UNCHANGED <<pending, active, routes, ctl, selected_line>>
        BY <1>2 DEF WriteEnableClear, interrupt_router_disable_lines
    <2>2. Typed(pending', active', enabled', routes', ctl', handling')
        BY <2>1, <1>0 DEF IrqInductive, Typed
    <2>3. ConservesExcept(pending', active', enabled', routes', {})
        BY <2>1, <1>0 DEF IrqInductive, ConservesExcept
    <2> QED BY <2>1, <2>2, <2>3, <1>0 DEF IrqInductive, Exclusive
<1>3. ASSUME NEW v \in Lines, WriteLineSelect(v)
      PROVE  IrqInductive'
    BY <1>3, <1>0 DEF WriteLineSelect, IrqInductive, Typed, Exclusive, ConservesExcept
<1>4. ASSUME NEW v \in Targets, WriteRoute(v)
      PROVE  IrqInductive'
    <2> DEFINE rt == [routes EXCEPT ![selected_line] = v]
    <2>1. Dispatch(pending, active, enabled, rt, ctl, {v})
          /\ selected_line \notin active /\ selected_line \in Lines
          /\ enabled' = enabled /\ routes' = rt /\ UNCHANGED selected_line
        BY <1>4 DEF WriteRoute, interrupt_router_set_route, IrqInductive
    <2>2. Typed(pending, active, enabled, rt, ctl, handling)
        BY DEF IrqInductive, Typed
    <2>3. \A l \in Lines : rt[l] = IF l = selected_line THEN v ELSE routes[l]
        BY DEF IrqInductive, Typed
    <2>4. \A l \in active : rt[l] = routes[l] /\ l \in Lines
        BY <2>1, <2>3 DEF IrqInductive, Typed
    <2> HIDE DEF rt
    <2>5. Exclusive(active, rt, ctl, handling)
        BY <2>4 DEF IrqInductive, Exclusive
    <2>6. ConservesExcept(pending, active, enabled, rt, {v})
        BY <2>3, <2>4 DEF IrqInductive, Typed, ConservesExcept
    <2> QED BY <2>1, <2>2, <2>5, <2>6, <1>0, DispatchStep
<1>5. ASSUME NEW mask \in SUBSET Lines, WriteEnable(mask)
      PROVE  IrqInductive'
    BY <1>5, <1>1 DEF WriteEnable
<1>6. ASSUME NEW mask \in SUBSET Lines, WriteEnableSet(mask)
      PROVE  IrqInductive'
    <2>1. enabled \cup mask \in SUBSET Lines
        BY DEF IrqInductive, Typed
    <2> QED BY <1>6, <2>1, <1>1 DEF WriteEnableSet
<1> QED BY <1>2, <1>3, <1>4, <1>5, <1>6 DEF GuestWrites

(* A processor takes a line, or starts with an empty controller. *)
LEMMA TakeKeeps ==
    ASSUME IrqInductive, NEW t \in Targets, Take(t) \/ ThreadStarts(t)
    PROVE  IrqInductive'
<1>0. UNCHANGED <<enabled, pending, active, routes, selected_line>>
    BY DEF Take, ThreadStarts, interrupt_controller_take_next, interrupt_controller_init, router
<1>1. CASE ThreadStarts(t)
    <2>1. ctl' = [ctl EXCEPT ![t] = {}] /\ UNCHANGED handling
        BY <1>1 DEF ThreadStarts, interrupt_controller_init
    <2>2. Typed(pending', active', enabled', routes', ctl', handling')
        BY <2>1, <1>0 DEF IrqInductive, Typed
    <2>3. \A u \in Targets : ctl'[u] \subseteq ctl[u]
        BY <2>1 DEF IrqInductive, Typed
    <2>4. Exclusive(active', routes', ctl', handling')
        BY <2>1, <2>3, <1>0 DEF IrqInductive, Exclusive
    <2> QED BY <2>2, <2>4, <1>0 DEF IrqInductive, ConservesExcept
<1>2. CASE Take(t)
    <2>1. PICK l \in ctl[t] : /\ ctl' = [ctl EXCEPT ![t] = @ \ {l}]
                              /\ handling' = [handling EXCEPT ![t] = l]
        BY <1>2 DEF Take, interrupt_controller_take_next
    <2>2. l \in AllLines
        BY DEF IrqInductive, Typed
    <2>3. Typed(pending', active', enabled', routes', ctl', handling')
        BY <2>1, <2>2, <1>0 DEF IrqInductive, Typed
    <2>4. /\ \A u \in Targets : ctl'[u] \subseteq ctl[u]
          /\ l \notin ctl'[t]
          /\ \A u \in Targets : handling'[u] = IF u = t THEN l ELSE handling[u]
        BY <2>1 DEF IrqInductive, Typed
    <2>5. \A u \in Targets : handling'[u] \in Lines =>
             handling'[u] \in active /\ routes[handling'[u]] = u /\ handling'[u] \notin ctl'[u]
        BY <2>4 DEF IrqInductive, Exclusive
    <2>6. Exclusive(active', routes', ctl', handling')
        BY <2>4, <2>5, <1>0 DEF IrqInductive, Exclusive
    <2> QED BY <2>3, <2>6, <1>0 DEF IrqInductive, ConservesExcept
<1> QED BY <1>1, <1>2

(* An inter-processor interrupt arrives. *)
LEMMA IpiKeeps ==
    ASSUME IrqInductive, NEW t \in Targets, IpiArrives(t)
    PROVE  IrqInductive'
<1>1. PICK l \in IpiLines : ctl' = [ctl EXCEPT ![t] = @ \cup {l}]
    BY DEF IpiArrives, RaiseIpi
<1>2. UNCHANGED <<enabled, pending, active, routes, selected_line, handling>>
    BY DEF IpiArrives, RaiseIpi, router
<1>3. Typed(pending', active', enabled', routes', ctl', handling')
    BY <1>1, <1>2 DEF IrqInductive, Typed, AllLines
<1>4. \A u \in Targets : ctl'[u] \cap Lines = ctl[u] \cap Lines
    BY <1>1, LinesDisjoint DEF IrqInductive, Typed
<1>5. Exclusive(active', routes', ctl', handling')
    BY <1>2, <1>4 DEF IrqInductive, Exclusive
<1> QED BY <1>2, <1>3, <1>5 DEF IrqInductive, ConservesExcept

(* A handler ends its line and returns. *)
LEMMA ReturnKeeps ==
    ASSUME IrqInductive, NEW t \in Targets, HandlerReturns(t)
    PROVE  IrqInductive'
<1> DEFINE l == handling[t]
           h == [handling EXCEPT ![t] = NoLine]
<1>1. handling' = h /\ UNCHANGED <<enabled, routes, selected_line>>
    BY DEF HandlerReturns, WriteEoi, interrupt_router_eoi
<1>2. h \in [Targets -> AllLines \cup {NoLine}]
      /\ \A u \in Targets : h[u] = IF u = t THEN NoLine ELSE handling[u]
    BY DEF IrqInductive, Typed
<1>3. CASE l \in active
    <2> DEFINE a == active \ {l}
    <2>1. Dispatch(pending, a, enabled, routes, ctl, {routes[l]})
        BY <1>3 DEF HandlerReturns, WriteEoi, interrupt_router_eoi
    <2>2. Typed(pending, a, enabled, routes, ctl, h)
        BY <1>2 DEF IrqInductive, Typed
    <2>3. l \in Lines /\ routes[l] = t /\ l \notin ctl[t]
        BY <1>3 DEF IrqInductive, Typed, Exclusive
    <2> HIDE DEF h, l
    <2>4. \A u \in Targets : \A m \in ctl[u] \cap Lines : m \in a /\ routes[m] = u
        BY <2>3 DEF IrqInductive, Exclusive
    <2>5. \A u \in Targets : h[u] \in Lines => h[u] \in a /\ routes[h[u]] = u /\ h[u] \notin ctl[u]
        BY <2>3, <1>2, LinesDisjoint DEF IrqInductive, Exclusive
    <2>6. Exclusive(a, routes, ctl, h)
        BY <2>4, <2>5 DEF IrqInductive, Exclusive
    <2>7. ConservesExcept(pending, a, enabled, routes, {routes[l]})
        BY DEF IrqInductive, ConservesExcept
    <2> HIDE DEF a
    <2>8. Typed(pending', active', enabled, routes, ctl', h)
        BY <2>1, <2>2, DispatchTyped
    <2>9. Exclusive(active', routes, ctl', h)
        BY <2>1, <2>2, <2>6, DispatchExclusive
    <2>10. ConservesExcept(pending', active', enabled, routes, {})
        BY <2>1, <2>2, <2>7, DispatchConserves
    <2> QED BY <2>8, <2>9, <2>10, <1>1 DEF IrqInductive, Typed, Exclusive, ConservesExcept
<1>4. CASE l \notin active
    <2>1. UNCHANGED <<pending, active, ctl>>
        BY <1>4 DEF HandlerReturns
    <2> HIDE DEF h
    <2>2. Typed(pending', active', enabled', routes', ctl', handling')
        BY <2>1, <1>1, <1>2 DEF IrqInductive, Typed
    <2>3. Exclusive(active', routes', ctl', handling')
        BY <2>1, <1>1, <1>2, LinesDisjoint DEF IrqInductive, Exclusive
    <2> QED BY <2>1, <2>2, <2>3, <1>1 DEF IrqInductive, ConservesExcept
<1> QED BY <1>3, <1>4

(* The timer ticks, and may fire. *)
LEMMA TimerKeeps ==
    ASSUME IrqInductive, TimerTicks
    PROVE  IrqInductive'
<1>1. UNCHANGED <<selected_line, handling>>
      /\ (interrupt_router_raise(0) \/ UNCHANGED <<enabled, pending, active, routes, ctl>>)
    BY DEF TimerTicks, timer_tick
<1>2. CASE interrupt_router_raise(0)
    BY <1>1, <1>2, RaiseKeeps, LineAssumption
<1>3. CASE UNCHANGED <<enabled, pending, active, routes, ctl>>
    BY <1>1, <1>3 DEF IrqInductive, Typed, Exclusive, ConservesExcept
<1> QED BY <1>1, <1>2, <1>3

(* The initial state, and the state after a warm reset. *)
LEMMA ResetInductive ==
    IrqInit => IrqInductive
<1> SUFFICES ASSUME IrqInit PROVE IrqInductive
    OBVIOUS
<1>1. Typed(pending, active, enabled, routes, ctl, handling)
    BY LineAssumption DEF IrqInit, Typed, AllLines
<1>2. Exclusive(active, routes, ctl, handling)
    BY LinesDisjoint DEF IrqInit, Exclusive
<1> QED BY <1>1, <1>2, LineAssumption DEF IrqInit, IrqInductive, ConservesExcept

(* A warm reset of every controller leaves the lines as at the start. *)
LEMMA WarmResetKeeps ==
    ASSUME WarmReset
    PROVE  IrqInductive'
<1>1. Typed(pending', active', enabled', routes', ctl', handling')
    BY LineAssumption
       DEF WarmReset, irq_controller_reset, interrupt_router_programmable_reset, Typed, AllLines
<1>2. Exclusive(active', routes', ctl', handling')
    BY LinesDisjoint
       DEF WarmReset, irq_controller_reset, interrupt_router_programmable_reset, Exclusive
<1> QED BY <1>1, <1>2, LineAssumption
        DEF WarmReset, irq_controller_reset, interrupt_router_programmable_reset,
            IrqInductive, ConservesExcept

(* Every step keeps the invariant. *)
LEMMA StepKeeps ==
    ASSUME IrqInductive, [IrqNext]_irqVars
    PROVE  IrqInductive'
<1>1. CASE UNCHANGED irqVars
    BY <1>1 DEF irqVars, IrqInductive, Typed, Exclusive, ConservesExcept
<1>2. ASSUME NEW l \in Lines \ {0}, DeviceRaises(l)
      PROVE  IrqInductive'
    BY <1>2, RaiseKeeps DEF DeviceRaises
<1>3. ASSUME NEW l \in Lines \ {0}, DeviceWithdraws(l)
      PROVE  IrqInductive'
    BY <1>3, WithdrawKeeps
<1>4. CASE GuestSetsTimer
    BY <1>4 DEF GuestSetsTimer, timer_write, IrqInductive, Typed, Exclusive, ConservesExcept
<1> QED BY <1>1, <1>2, <1>3, <1>4, TimerKeeps, TakeKeeps, IpiKeeps, ReturnKeeps,
           GuestWritesKeep, WarmResetKeeps DEF IrqNext

(* The router excludes re-entry and sits on no work, for any lines,        *)
(* processors and timer period, whatever the guest does to its registers.  *)
THEOREM RouterSafe == IrqSpec => []RouterExact
<1>1. IrqInit => IrqInductive
    BY ResetInductive
<1>2. IrqInductive /\ [IrqNext]_irqVars => IrqInductive'
    BY StepKeeps
<1>3. IrqInductive => NoReentry
    BY DEF IrqInductive, Exclusive, NoReentry
<1>4. IrqInductive => WorkConserving
    BY DEF IrqInductive, ConservesExcept, WorkConserving
<1>5. IrqInductive => RouterExact
    BY <1>3, <1>4 DEF RouterExact
<1> QED BY <1>1, <1>2, <1>5, PTL DEF IrqSpec
=============================================================================
