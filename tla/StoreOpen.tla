------------------------------ MODULE StoreOpen ------------------------------
(***************************************************************************)
(* Opening a store of zero-store: which directory an engine's data lives in *)
(* (store_root.rs) and the migration of its format (migrations.rs).  Any    *)
(* engine may open the repository at any time in any environment of Envs,   *)
(* and any process may run the migration chain of its build; nothing locks  *)
(* either, and a process may die between two writes.                        *)
(***************************************************************************)
EXTENDS Naturals, Sequences, FiniteSetsExt

CONSTANTS Engines, MaxKnown, Migrators, MaxMigratorDeaths

VARIABLES marker,     \* <repo>/.zerostack: "none", "dir" or "symlink"
          legacy,     \* engines whose legacy directory exists
          home,       \* engine -> places where it has kept data
          format,     \* the version record; 0 when it is absent
          markers,    \* steps whose marker file exists, named by their target
          shape,      \* history: the transforms applied to the store, in order
          migrator,   \* migrator -> its progress through run_store_migrations
          deaths

rootVars == <<marker, legacy, home>>

formatVars == <<format, markers, shape, migrator, deaths>>

openVars == <<rootVars, formatVars>>

-----------------------------------------------------------------------------
\* StoreEnv: the first non-empty pin (a blank one counts as unset) and the
\* opt-in.
Envs == [pin : {"unset", "blank", "tilde", "inside", "outside"}, optIn : BOOLEAN]

EffectivePin(env) == IF env.pin = "blank" THEN "unset" ELSE env.pin

\* ResolvedStore::resolve: a real .zerostack directory, else an opted-in pin
\* that does not start with a literal '~', else the engine's legacy directory
\* if it exists, else .zerostack.
Resolve(engine, env) ==
    LET pin == EffectivePin(env)
    IN  CASE marker = "dir" -> "local_unified"
          [] marker # "dir" /\ env.optIn /\ pin = "inside"  -> "pinned_inside_project"
          [] marker # "dir" /\ env.optIn /\ pin = "outside" -> "shared_namespaced"
          [] OTHER -> IF engine \in legacy THEN "legacy" ELSE "local_unified"

\* ensure_layout refuses a literal '~' pin and a symlinked marker.
Refuses(env) == EffectivePin(env) = "tilde" \/ marker = "symlink"

\* An engine opens the store: resolve, then ensure_layout, then its first write.
OpenStore ==
    \E engine \in Engines, env \in Envs :
        LET mode == Resolve(engine, env)
        IN  /\ ~ Refuses(env)
            /\ marker' = IF mode = "local_unified" THEN "dir" ELSE marker
            /\ home' = [home EXCEPT ![engine] = @ \cup {mode}]
            /\ UNCHANGED <<legacy, formatVars>>

-----------------------------------------------------------------------------
\* Step n takes format n to n + 1; a migrator's build knows the steps below its
\* own target.
Targets == 1..MaxKnown

AtRest == [at |-> "rest", target |-> 1, current |-> 1, step |-> 0]

\* detect_store_format_version: an absent record is the canonical version 1.
Detected == IF format = 0 THEN 1 ELSE format

\* The start of run_store_migrations: a version above what the build knows is
\* refused.
StartMigration ==
    \E m \in Migrators, target \in Targets :
        /\ migrator[m] = AtRest /\ Detected <= target
        /\ migrator' = [migrator EXCEPT ![m] = [at |-> "step", target |-> target,
                                                 current |-> Detected, step |-> 1]]
        /\ UNCHANGED <<rootVars, format, markers, shape, deaths>>

\* The loop body up to the marker: a step at or below the detected version, or
\* one whose marker exists, is passed over; any other is transformed.
RunStep ==
    \E m \in Migrators :
        LET r == migrator[m]
            next == [migrator EXCEPT ![m].step = @ + 1]
        IN  /\ r.at = "step" /\ r.step < r.target
            /\ IF r.step + 1 <= r.current \/ r.step + 1 \in markers
               THEN migrator' = next /\ UNCHANGED shape
               ELSE /\ shape' = Append(shape, r.step)
                    /\ migrator' = [migrator EXCEPT ![m].at = "mark"]
            /\ UNCHANGED <<rootVars, format, markers, deaths>>

\* The marker is written after the transform.
WriteMarker ==
    \E m \in Migrators :
        /\ migrator[m].at = "mark"
        /\ markers' = markers \cup {migrator[m].step + 1}
        /\ migrator' = [migrator EXCEPT ![m].at = "step", ![m].step = @ + 1]
        /\ UNCHANGED <<rootVars, format, shape, deaths>>

\* A plausible slip: the version advances before the loop over the steps.
WriteVersionEarly ==
    \E m \in Migrators :
        /\ migrator[m].at = "step"
        /\ format' = IF migrator[m].target # migrator[m].current
                     THEN migrator[m].target ELSE format
        /\ migrator' = [migrator EXCEPT ![m] = AtRest]
        /\ UNCHANGED <<rootVars, markers, shape, deaths>>

\* After the last step the version record is written once, if it changes, and
\* the receipt is persisted.
WriteVersion ==
    \E m \in Migrators :
        /\ migrator[m].at = "step" /\ migrator[m].step = migrator[m].target
        /\ format' = IF migrator[m].target # migrator[m].current
                     THEN migrator[m].target ELSE format
        /\ migrator' = [migrator EXCEPT ![m] = AtRest]
        /\ UNCHANGED <<rootVars, markers, shape, deaths>>

MigratorDies ==
    \E m \in Migrators :
        /\ migrator[m] # AtRest /\ deaths < MaxMigratorDeaths
        /\ migrator' = [migrator EXCEPT ![m] = AtRest]
        /\ deaths' = deaths + 1
        /\ UNCHANGED <<rootVars, format, markers, shape>>

OpenInit ==
    /\ marker \in {"none", "dir", "symlink"} /\ legacy \in SUBSET Engines
    /\ home = [e \in Engines |-> IF e \in legacy THEN {"legacy"} ELSE {}]
    /\ format = 0 /\ markers = {} /\ shape = << >>
    /\ migrator = [m \in Migrators |-> AtRest] /\ deaths = 0

MigrateNext == StartMigration \/ RunStep \/ WriteMarker \/ WriteVersion \/ MigratorDies

OpenSpec == OpenInit /\ [][OpenStore \/ MigrateNext]_openVars

-----------------------------------------------------------------------------
\* A store never claims a format it has not been brought to: whatever the
\* migrators interleave and wherever they die, the transforms up to the recorded
\* version have all been applied, each one for the first time after the first
\* application of the one before.
VersionIsEarned ==
    /\ \A n \in 1..(Detected - 1) : n \in Range(shape)
    /\ \A i \in 1..Len(shape) : \A n \in 1..(shape[i] - 1) :
           \E j \in 1..(i - 1) : shape[j] = n

\* "An existing legacy per-repository directory retained until explicit
\* migration" (store_root.rs, StoreMode::Legacy): an engine that keeps data in
\* its legacy directory is not moved to the project-local store by the mere
\* opening of the repository.
LegacyRetained ==
    \A e \in legacy : "local_unified" \notin home[e]
=============================================================================
