--------------------------- MODULE AtomicCatalog ---------------------------
(***************************************************************************)
(* What the standalone tools promise (docs/adr/0009): the set of installed *)
(* tools changes by one whole tool at a time, and every invocation runs    *)
(* one generation that was the selected one when it started.               *)
(***************************************************************************)
EXTENDS Naturals

CONSTANTS Tools,      \* package names
          Commands,   \* command names
          Invokers,   \* invocations of launchers
          Nothing,    \* no tool, no running generation
          Changes     \* numbers of the commands that change the tools

VARIABLES installed,  \* [Tools -> a tool or Nothing]
          latest,     \* the number of the last change that took effect
          running     \* [Invokers -> a generation or Nothing]

avars == <<installed, latest, running>>

AInit == /\ installed = [t \in Tools |-> Nothing]
         /\ latest = 0
         /\ running = [i \in Invokers |-> Nothing]

\* A change takes effect once, after the ones before it.
ATurn == /\ latest' \in Changes /\ latest' > latest
         /\ UNCHANGED running

\* A tool is installed or replaced by a generation of its own, and exports
\* no command of another tool.
APut(t) == \E commands \in SUBSET Commands :
  /\ ATurn
  /\ \A u \in Tools \ {t} :
       installed[u] # Nothing => installed[u].commands \cap commands = {}
  /\ installed' = [installed EXCEPT ![t] = [gen |-> latest', commands |-> commands]]

ADrop(t) == /\ ATurn
            /\ installed[t] # Nothing
            /\ installed' = [installed EXCEPT ![t] = Nothing]

ARun(i) == \E t \in Tools : /\ installed[t] # Nothing
                            /\ running[i] = Nothing
                            /\ running' = [running EXCEPT ![i] = installed[t].gen]
                            /\ UNCHANGED <<installed, latest>>

AExit(i) == /\ running[i] # Nothing
            /\ running' = [running EXCEPT ![i] = Nothing]
            /\ UNCHANGED <<installed, latest>>

ANext == \/ \E t \in Tools : APut(t) \/ ADrop(t)
         \/ \E i \in Invokers : ARun(i) \/ AExit(i)

ASpec == AInit /\ [][ANext]_avars
=============================================================================
