---------------------------- MODULE AudioFormats ----------------------------
(***************************************************************************)
(* The preflight of an application (launcher/audio_format_validation.hpp): *)
(* what the modules declare of their audio endpoints is carried along the  *)
(* routes and through the modules that pass a format on, until nothing     *)
(* changes, and two different values that meet refuse the application.     *)
(*                                                                         *)
(* Sample rate, channel count and clock domain are carried alike, each     *)
(* with its own flag; the attribute here is the channel count, the one     *)
(* that also has to fit the endpoint.  A module has at most one endpoint   *)
(* of a direction, as the audio_*_metadata functions build them:           *)
(*   [in, out, keeps, room, from]                                          *)
(* where in and out are declarations or NoEndpoint, keeps says that the    *)
(* channel count passes from in to out, room is max_channels and from the  *)
(* index of the module the input is routed to, 0 when it is not.           *)
(***************************************************************************)
EXTENDS Integers, Sequences, SequencesExt, FiniteSetsExt

CONSTANT ApplicationSize   \* the modules of an application

ASSUME FormatsAssumption == ApplicationSize \in Nat \ {0}

-----------------------------------------------------------------------------
(* resolve: the fixed value, else what the application configures, else    *)
(* the default of the parameter; Undeclared when there is none of them.    *)
Undeclared == 0
ResolvedCount(d) == IF d.fixed # Undeclared THEN d.fixed ELSE IF d.configured # Undeclared THEN d.configured ELSE d.default

NoEndpoint == [absent |-> TRUE]
In(m) == <<m, "in">>
Out(m) == <<m, "out">>
Declarations(app) ==
  [e \in {In(m) : m \in {n \in DOMAIN app : app[n].in # NoEndpoint}}
         \cup {Out(m) : m \in {n \in DOMAIN app : app[n].out # NoEndpoint}} |->
     ResolvedCount(IF e[2] = "in" THEN app[e[1]].in ELSE app[e[1]].out)]

(* merge_format: a value is carried to an endpoint that has none *)
MergeFormat(s, source, destination) ==
  CASE s.refused \/ s.format[source] = Undeclared -> s
    [] ~ s.refused /\ s.format[source] # Undeclared ->
         IF s.format[destination] = Undeclared
         THEN [s EXCEPT !.format[destination] = s.format[source], !.changed = TRUE]
         ELSE [s EXCEPT !.refused = s.format[source] # s.format[destination]]

Routed(app, m) == app[m].in # NoEndpoint /\ app[m].from # 0 /\ app[app[m].from].out # NoEndpoint
TooNarrow(app, m) == Routed(app, m) /\ app[app[m].from].room > app[m].room
Visit(app, s, m) ==
  LET arrived == CASE ~ Routed(app, m) -> s
                   [] Routed(app, m) /\ TooNarrow(app, m) -> [s EXCEPT !.refused = TRUE]
                   [] OTHER -> MergeFormat(s, Out(app[m].from), In(m))
  IN IF app[m].keeps THEN MergeFormat(arrived, In(m), Out(m)) ELSE arrived

(* validate_audio_formats: rounds over all modules, one more than there    *)
(* are; a round that changes nothing accepts.                              *)
OneRound(app, s) ==
  LET after == FoldLeft(LAMBDA t, m : Visit(app, t, m), [s EXCEPT !.changed = FALSE],
                        [m \in DOMAIN app |-> m])
  IN [after EXCEPT !.accepted = ~ after.refused /\ ~ after.changed]
ValidateFormats(app) ==
  LET declared == Declarations(app)
  IN FoldLeft(LAMBDA s, i : IF s.accepted \/ s.refused THEN s ELSE OneRound(app, s),
              [format |-> declared, changed |-> FALSE, accepted |-> FALSE,
               refused |-> \E e \in DOMAIN declared : declared[e] > app[e[1]].room],
              [i \in 1 .. Len(app) + 1 |-> i])

-----------------------------------------------------------------------------
(* What the preflight promises, without an order of modules or a number of *)
(* rounds: where each declared value arrives.                              *)
Carries(app) == {<<Out(app[m].from), In(m)>> : m \in {n \in DOMAIN app : Routed(app, n)}}
                  \cup {<<In(m), Out(m)>> : m \in {n \in DOMAIN app : app[n].keeps}}
Arrives(app, declared, v) ==
  FoldLeft(LAMBDA reached, i : reached \cup {c[2] : c \in {d \in Carries(app) : d[1] \in reached}},
           {e \in DOMAIN declared : declared[e] = v}, [i \in 1 .. 2 * Len(app) |-> i])

Declared(v) == [fixed |-> v, configured |-> Undeclared, default |-> Undeclared]
Parameter(v, default) == [fixed |-> Undeclared, configured |-> v, default |-> default]
Declaring(in, out, keeps, room, from) ==
  [in |-> in, out |-> out, keeps |-> keeps, room |-> room, from |-> from]
ModuleKinds(routes) ==
  {Declaring(NoEndpoint, Declared(v), FALSE, 2, 0) : v \in {Undeclared, 1, 2}}                   \* sources
    \cup {Declaring(Parameter(v, 1), NoEndpoint, FALSE, 2, m) : v \in {Undeclared, 2}, m \in routes}     \* sinks
    \cup {Declaring(Declared(Undeclared), Declared(Undeclared), TRUE, room, m) : room \in {1, 2}, m \in routes}
    \cup {Declaring(Declared(1), Parameter(v, Undeclared), FALSE, 2, m) : v \in {Undeclared, 2}, m \in routes}
Applications == [1 .. ApplicationSize -> ModuleKinds(0 .. ApplicationSize)]

(* An application is accepted exactly when no endpoint is reached by two   *)
(* values, whatever the order of its modules, their number of routes and   *)
(* the cycles among them; every endpoint then has the one value that       *)
(* reaches it, and no producer outgrows its consumer.                      *)
ASSUME PreflightExact ==
  \A app \in Applications :
    LET declared == Declarations(app)
        one == Arrives(app, declared, 1)
        two == Arrives(app, declared, 2)
        result == ValidateFormats(app)
        fits == \A m \in DOMAIN app : ~ TooNarrow(app, m)
    IN /\ result.accepted <=> one \cap two = {} /\ fits
       /\ result.accepted => \A e \in DOMAIN declared :
            /\ result.format[e] = IF e \in one THEN 1 ELSE IF e \in two THEN 2 ELSE Undeclared
            /\ result.format[e] <= app[e[1]].room
=============================================================================
