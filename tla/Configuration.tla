------------------------------ MODULE Configuration ------------------------------
(***************************************************************************)
(* config.LoadOptions and config.Watch, and Options.Normalize of the root  *)
(* package: a file, the environment and overrides are laid over one        *)
(* another, the rest is filled in from the defaults, and the result is     *)
(* delivered again whenever the file has been written.                     *)
(*                                                                         *)
(* A field stands for all the fields that are treated alike.  A value is   *)
(* "zero" (empty or 0), "negative", "bad" (does not parse, has the wrong   *)
(* type, is no mode or is sentinel without a master), "default", or a      *)
(* usable value, named by where it is written: "file", "env", "override".  *)
(* "unset" is a layer's silence.                                           *)
(***************************************************************************)
EXTENDS Integers, Sequences, FiniteSets

CONSTANTS
    Files,          \* the contents a file may have, HalfWritten among them
    Environments,   \* what the environment sets
    Overrides,      \* what the overrides set
    MaxSaves        \* bound on the number of times the file is saved

\* name: Name, Addrs; mode: Mode; plain: Username, Password, MasterName; db: DB;
\* counted: PoolSize, MaxInflight, MaxAttempts, FailureThreshold, ...; relaxed:
\* MinIdleConns, Jitter; duration: the timeouts, delays and ages.
Fields == {"name", "mode", "plain", "db", "counted", "relaxed", "duration"}
Texts == {"name", "mode", "plain"}

\* What is no configuration: a file that does not parse, the error of a load, and
\* the options before any were delivered.
HalfWritten == [x \in Fields |-> "broken"]
Failed == [x \in Fields |-> "error"]
Nothing == [x \in Fields |-> "unset"]

\* What a layer may set, and the fields in which it may be "bad"; no text is
\* negative.
Layer(values, mayBeBad) ==
    {f \in [Fields -> values] :
        /\ \A x \in Fields : f[x] = "bad" => x \in mayBeBad
        /\ \A x \in Texts : f[x] # "negative"}

ASSUME ConfigurationAssumption ==
    /\ Files \subseteq
          {HalfWritten} \union Layer({"zero", "negative", "bad", "file"}, {"mode", "duration"})
    /\ Environments \subseteq
          Layer({"unset", "zero", "negative", "bad", "env"}, Fields \ {"name", "plain"})
    /\ Overrides \subseteq Layer({"unset", "zero", "negative", "bad", "override"}, Fields)
    /\ MaxSaves \in Nat

VARIABLES
    env, overrides,     \* the layers above the file
    content,            \* the file
    watch,              \* of the watcher: "off", "on", "lost", "stopped"
    events,             \* whether a Write event waits
    delivered,          \* what onChange was last called with
    saves,              \* history: how often the file was saved
    seen                \* history: the watch was on at the last write

configVars == <<env, overrides, content, watch, events, delivered, saves, seen>>

-----------------------------------------------------------------------------
(* Loading.                                                                *)

\* ApplyEnv: an empty variable is none, a number that does not parse is ignored.
WithEnv(f, e) ==
    [x \in Fields |->
        IF e[x] = "unset" \/ (x \in Texts /\ e[x] = "zero") \/ (x \notin Texts /\ e[x] = "bad")
        THEN f[x] ELSE e[x]]

\* ApplyOverrides: a value of the wrong type is ignored, an empty one is not.
WithOverrides(f, o) ==
    [x \in Fields |-> IF o[x] = "unset" \/ (x # "mode" /\ o[x] = "bad") THEN f[x] ELSE o[x]]

\* Mutant of Normalized: a zero is taken for a choice.
NormalizedZeroKept(x, v) ==
    CASE x \in {"name", "mode"} -> IF v = "zero" THEN "default" ELSE v
      [] x \in {"plain", "db"} -> v
      [] x \in {"counted", "duration"} -> IF v = "negative" THEN "default" ELSE v
      [] x = "relaxed" -> IF v = "negative" THEN "default" ELSE v

\* applyCoreDefaults and its like: what makes no sense becomes the default.  For
\* the relaxed fields zero makes sense, for the plain ones everything does.
Normalized(x, v) ==
    CASE x \in {"name", "mode"} -> IF v = "zero" THEN "default" ELSE v
      [] x \in {"plain", "db"} -> v
      [] x \in {"counted", "duration"} -> IF v \in {"zero", "negative"} THEN "default" ELSE v
      [] x = "relaxed" -> IF v = "negative" THEN "default" ELSE v

\* BuildOptions before Normalize: empty texts and durations leave the default,
\* the other fields are assigned whatever they are.
Assigned(x, v) == IF x \in {"name", "mode", "duration"} /\ v = "zero" THEN "default" ELSE v

\* validate refuses a mode that is none.
Validates(options) == options["mode"] # "bad"

\* A duration that does not parse is an error too.
BuildOptions(f) ==
    LET options == [x \in Fields |-> Normalized(x, Assigned(x, f[x]))] IN
    IF f["duration"] # "bad" /\ Validates(options) THEN options ELSE Failed

LoadOptions(c) ==
    IF c = HalfWritten THEN Failed ELSE BuildOptions(WithOverrides(WithEnv(c, env), overrides))

\* Options.Normalize once more, as New does it.
NormalizeAgain(options) == [x \in Fields |-> Normalized(x, options[x])]

-----------------------------------------------------------------------------
(* Watching.                                                               *)

Empty == [x \in Fields |-> "zero"]

ConfigInit ==
    /\ env \in Environments /\ overrides \in Overrides
    /\ content = Empty
    /\ watch = "off"
    /\ events = FALSE
    /\ delivered = Nothing
    /\ saves = 0 /\ seen = FALSE

\* Watch: the goroutine runs and watcher.Add has returned.
StartWatch ==
    /\ watch = "off"
    /\ watch' = "on"
    /\ UNCHANGED <<env, overrides, content, events, delivered, saves, seen>>

\* The file is written in place: it is truncated and then filled, and the watcher
\* is told of both.  A reader in between finds it empty: as YAML that is a
\* configuration in which nothing is set, as JSON it is broken.
Truncate ==
    /\ saves < MaxSaves
    /\ content' \in {Empty, HalfWritten}
    /\ events' = (events \/ watch = "on") /\ seen' = (watch = "on")
    /\ saves' = saves + 1
    /\ UNCHANGED <<env, overrides, watch, delivered>>

Fill(c) ==
    /\ saves > 0
    /\ content \in {Empty, HalfWritten} /\ content # c
    /\ content' = c
    /\ events' = (events \/ watch = "on") /\ seen' = (watch = "on")
    /\ UNCHANGED <<env, overrides, watch, delivered, saves>>

\* An editor puts a new file in the old one's place: the watcher watches the old
\* one, which is gone, and the event is neither Write nor Create.
Replace(c) ==
    /\ saves < MaxSaves
    /\ content' = c
    /\ watch' = IF watch = "on" THEN "lost" ELSE watch
    /\ saves' = saves + 1 /\ seen' = FALSE
    /\ UNCHANGED <<env, overrides, events, delivered>>

\* Mutant of HandleEvent: the options are delivered once.
HandleEventFirstOnly ==
    /\ watch \in {"on", "lost"} /\ events
    /\ events' = FALSE
    /\ delivered' = IF delivered # Nothing \/ LoadOptions(content) = Failed
                    THEN delivered ELSE LoadOptions(content)
    /\ UNCHANGED <<env, overrides, content, watch, saves, seen>>

\* The loop takes an event, loads the file as it is by then, and delivers the
\* options unless there was an error.
HandleEvent ==
    /\ watch \in {"on", "lost"} /\ events
    /\ events' = FALSE
    /\ delivered' = IF LoadOptions(content) = Failed THEN delivered ELSE LoadOptions(content)
    /\ UNCHANGED <<env, overrides, content, watch, saves, seen>>

\* The context ends.
StopWatch ==
    /\ watch \in {"on", "lost"}
    /\ watch' = "stopped"
    /\ UNCHANGED <<env, overrides, content, events, delivered, saves, seen>>

ConfigNext ==
    \/ StartWatch \/ Truncate \/ HandleEvent \/ StopWatch
    \/ \E c \in Files : Fill(c) \/ Replace(c)

ConfigFairness == WF_configVars(HandleEvent)

ConfigSpec == ConfigInit /\ [][ConfigNext]_configVars /\ ConfigFairness

-----------------------------------------------------------------------------
(* Properties.                                                             *)

\* Options that reach the application are complete and final: none of their
\* fields is bad or a value that makes no sense, an unset field has its default
\* (a relaxed one zero), Normalize, which New calls again, changes nothing, and
\* no layer shows through one above it.
DeliveredIsFinal ==
    delivered # Nothing =>
        /\ NormalizeAgain(delivered) = delivered
        /\ \A x \in {"name", "mode", "counted", "duration"} :
              delivered[x] \in {"default", "file", "env", "override"}
        /\ \A x \in Fields : overrides[x] = "override" => delivered[x] = "override"
        /\ \A x \in Fields :
              env[x] = "env" /\ overrides[x] = "unset" => delivered[x] = "env"

\* A file that is no longer written settles the application's options: if it
\* describes any, they are delivered in the end, however often it was caught
\* half-written before, unless the watch was lost or stopped.
WatchSettles ==
    \A c \in Files \ {HalfWritten} :
        <>[](content = c /\ seen /\ watch = "on" /\ LoadOptions(c) # Failed) =>
            <>[](delivered = LoadOptions(c))

=============================================================================
