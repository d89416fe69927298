------------------------------ MODULE LogFanout ------------------------------
(***************************************************************************)
(* The logger that logging.Init returns.  The options are applied in the   *)
(* order they are given; they and the environment make the sinks: an OTLP  *)
(* primary, or one over the output, the caller's extra sinks, and the      *)
(* mirror on stderr.  More than one sink is put behind a fanoutHandler;    *)
(* some are wrapped by WithTraceContextAttrs.  One goroutine logs while    *)
(* others derive loggers from any logger with With and WithGroup.          *)
(*                                                                         *)
(* Records and sinks are log/slog's.  A slog.Record is passed by value:    *)
(* its first FrontSize attributes are copied with it, the rest is a slice  *)
(* whose array is shared by the copies, and two copies that append to it   *)
(* are in each other's way (slog marks that with a "!BUG" attribute).  A   *)
(* sink may keep the record and read it later.                             *)
(***************************************************************************)
EXTENDS Integers, Sequences, FiniteSets, SequencesExt

CONSTANTS
    Outputs,      \* what a program may write its logs to, besides stderr
    OptionLists,  \* the lists of options a program may give
    Levels,       \* the levels of records: -1 (debug), 0 (info), 1 and up
    FrontSize,    \* attributes kept inside a slog.Record (5 in log/slog)
    MaxAttrs,     \* bound: attributes of one call
    MaxLoggers    \* bound: loggers derived from Init's

Always == -99   \* the level of a sink that takes every record

ASSUME BoundsAssumption ==
    /\ Levels \subseteq Int /\ \A level \in Levels : Always <= level
    /\ FrontSize \in Nat /\ MaxAttrs \in Nat /\ MaxLoggers \in Nat \ {0}

VARIABLES
    env,       \* [otlp, pod]: OTLP logs are configured; KUBERNETES_SERVICE_HOST is set
    options,   \* what Init was given
    applied,   \* options applied so far, one more when Init has returned
    config,    \* what they have made of the config
    sinks,     \* the sinks of the logger, <<>> before that and after an error
    slices,    \* every []slog.Handler made: one handler per sink
    loggers,   \* [slice, asked]: the handlers of a logger; what With and WithGroup asked of it
    arrays,    \* the arrays behind the slices of records
    call,      \* the call of Handle: [pc, logger, level, record, attrs, span, next, errs]
    kept       \* what the sinks were given: [sink, handler, record]

setup == <<env, options, applied, config, sinks>>
vars == <<setup, slices, loggers, arrays, call, kept>>

\* The key of an attribute, or the name of a group.
Key(name, n) == <<name, n>>
Keys == {"none", "!BUG", "own", "trace_id", "span_id", "attr", "with", "group"} \X Nat
None == Key("none", 0)
Bug == Key("!BUG", 0)
Own == Key("own", 0)
Trace == <<Key("trace_id", 0), Key("span_id", 0)>>

Blank == [groups |-> <<>>, attrs |-> <<>>]
Indices == 1..Len(sinks)

\* An attribute under the groups that are open.
Qualified(h, keys) == [j \in 1..Len(keys) |-> <<h.groups, keys[j]>>]

Idle == [pc |-> "idle", logger |-> 1, level |-> 0, record |-> [front |-> <<>>, array |-> 0, len |-> 0, cap |-> 0],
         attrs |-> <<>>, span |-> FALSE, next |-> 1, errs |-> {}]

Kept == {kept[j] : j \in 1..Len(kept)}
Accepts(i) == sinks[i].level <= call.level

Formats == {"auto", "json", "text"}
SinkRecord == [to : Outputs \cup {"stderr", "collector"}, level : Int, format : Formats \cup {"otlp"},
               adds : {"nothing", "span", "own"}]
ConfigRecord == [format : Formats, level : Int, output : Outputs \cup {"nil"}, extras : Seq(SinkRecord),
                 mirror : BOOLEAN]
Handler == [groups : Seq(Keys), attrs : Seq(Seq(Keys) \X Keys)]
Record == [front : Seq(Keys), array : Nat, len : Nat, cap : Nat]

\* An option has a value of its own kind.
Typed(option) ==
    CASE option.name = "format" -> option.value \in Formats
      [] option.name = "output" -> option.value \in Outputs \cup {"nil"}
      [] option.name = "level" -> option.value \in Int
      [] option.name = "extras" -> option.value \in Seq(SinkRecord)
      [] option.name = "mirror" -> option.value = TRUE
      [] OTHER -> FALSE

ASSUME OptionsAssumption ==
    \A opts \in OptionLists : Len(opts) \in Nat /\ \A i \in 1..Len(opts) : Typed(opts[i])

TypeOK ==
    /\ options \in OptionLists /\ applied \in 0..(Len(options) + 1)
    /\ config \in ConfigRecord
    /\ sinks \in Seq(SinkRecord) /\ slices \in Seq(Seq(Handler))
    /\ \A s \in 1..Len(slices) : Len(slices[s]) = Len(sinks)
    /\ loggers \in Seq([slice : 1..Len(slices), asked : Handler])
    /\ arrays \in Seq(Seq(Keys))
    /\ call \in [pc : {"idle", "handle", "done"}, logger : Nat, level : Int, record : Record, attrs : Seq(Keys),
                span : BOOLEAN, next : 1..(Len(sinks) + 1), errs : SUBSET Indices]
    /\ kept \in Seq([sink : Indices, handler : Handler, record : Record])

-----------------------------------------------------------------------------
(* The options, and the sinks they make.                                   *)

\* Where a sink writes, its least level, its shape, and what it adds to a
\* record: nothing, its trace ("span") or an attribute of its own ("own").
Sink(to, level, format, adds) == [to |-> to, level |-> level, format |-> format, adds |-> adds]

Option(name, value) == [name |-> name, value |-> value]

\* The zero config: slog.LevelInfo is zero, a nil output means stderr.
Config == [format |-> "auto", level |-> 0, output |-> "nil", extras |-> <<>>, mirror |-> FALSE]

\* A plausible bug: the mirror is made when the option is applied, with the
\* level of that moment.
WithStderrMirrorNow(c) == [c EXCEPT !.extras = Append(@, Sink("stderr", c.level, "json", "span"))]

WithFormat(c, format) == [c EXCEPT !.format = format]
WithLevel(c, level) == [c EXCEPT !.level = level]
WithOutput(c, output) == [c EXCEPT !.output = output]
WithExtraHandlers(c, handlers) == [c EXCEPT !.extras = @ \o handlers]
WithStderrMirror(c) == [c EXCEPT !.mirror = TRUE]

Apply(c, option) ==
    CASE option.name = "format" -> WithFormat(c, option.value)
      [] option.name = "level" -> WithLevel(c, option.value)
      [] option.name = "output" -> WithOutput(c, option.value)
      [] option.name = "extras" -> WithExtraHandlers(c, option.value)
      [] option.name = "mirror" -> WithStderrMirror(c)

baseHandler(c) ==
    LET format == IF c.format # "auto" THEN c.format ELSE IF env.pod THEN "json" ELSE "text"
    IN  Sink(IF c.output = "nil" THEN "stderr" ELSE c.output, c.level, format, "nothing")

newStderrMirrorHandler(c) == Sink("stderr", c.level, "json", "span")
otelHandler == Sink("collector", Always, "otlp", "nothing")

\* The primary before the extras.
compose(primary, extras) == <<primary>> \o extras

\* Without OTLP there is nothing to mirror: Init returns an error, no logger.
LoggingInit(c) ==
    IF env.otlp
    THEN compose(otelHandler, c.extras \o (IF c.mirror THEN <<newStderrMirrorHandler(c)>> ELSE <<>>))
    ELSE IF c.mirror THEN <<>> ELSE compose(baseHandler(c), c.extras)

Init ==
    /\ env \in [otlp : BOOLEAN, pod : BOOLEAN]
    /\ options \in OptionLists /\ applied = 0
    /\ config = Config
    /\ sinks = <<>> /\ slices = <<>> /\ loggers = <<>>
    /\ arrays = <<>> /\ call = Idle /\ kept = <<>>

ApplyOption ==
    /\ applied < Len(options)
    /\ applied' = applied + 1
    /\ config' = Apply(config, options[applied + 1])
    /\ UNCHANGED <<env, options, sinks, slices, loggers, arrays, call, kept>>

InitReturns ==
    /\ applied = Len(options)
    /\ applied' = applied + 1
    /\ sinks' = LoggingInit(config)
    /\ slices' = <<[i \in 1..Len(sinks') |-> Blank]>>
    /\ loggers' = <<[slice |-> 1, asked |-> Blank]>>
    /\ UNCHANGED <<env, options, config, arrays, call, kept>>

-----------------------------------------------------------------------------
(* Plausible bugs of the definitions below.                                *)

\* The children share the record: Handle passes r and not r.Clone().
CloneNothing(r) == r

\* Only the last error is kept.
JoinLast(failed) == IF failed THEN {call.next} ELSE {}

-----------------------------------------------------------------------------
(* log/slog.                                                               *)

\* Record.Clone clips the slice: an append through the clone must copy.
SlogClone(r) == [r EXCEPT !.cap = r.len]

\* The slice of a record, with the arrays as they are.
BackIn(arrs, r) == IF r.array = 0 THEN <<>> ELSE SubSeq(arrs[r.array], 1, r.len)
Back(r) == BackIn(arrays, r)

\* Record.AddAttrs on a record: the record and the arrays after it.
AddAttrs(r, keys) ==
    LET room == FrontSize - Len(r.front)
        fits == IF room < Len(keys) THEN room ELSE Len(keys)
        front == r.front \o SubSeq(keys, 1, fits)
        rest == SubSeq(keys, fits + 1, Len(keys))
        taken == r.cap > r.len /\ arrays[r.array][r.len + 1] # None
        inPlace == ~taken /\ r.cap - r.len >= Len(rest)
        copy == Back(r) \o (IF taken THEN <<Bug>> ELSE <<>>) \o rest
    IN  CASE rest = <<>> -> [record |-> [r EXCEPT !.front = front], arrays |-> arrays]
          [] rest # <<>> /\ inPlace ->
               [record |-> [r EXCEPT !.front = front, !.len = r.len + Len(rest)],
                arrays |-> [arrays EXCEPT ![r.array] =
                              [j \in DOMAIN @ |-> IF j \in (r.len + 1)..(r.len + Len(rest))
                                                  THEN rest[j - r.len] ELSE @[j]]]]
          [] OTHER ->
               [record |-> [front |-> front, array |-> Len(arrays) + 1, len |-> Len(copy), cap |-> Len(copy)],
                arrays |-> Append(arrays, copy)]

\* What a sink that kept a record reads in it now.
Reads(k) == k.handler.attrs \o Qualified(k.handler, k.record.front \o Back(k.record))

-----------------------------------------------------------------------------
(* Deriving loggers, by any goroutine at any time.                         *)

\* A handler derived from h by a With, or a WithGroup, on logger l.
AttrOn(h, l) == [h EXCEPT !.attrs = Append(@, <<h.groups, Key("with", l)>>)]
GroupOn(h, l) == [h EXCEPT !.groups = Append(@, Key("group", l))]

\* The derived handlers go into a slice of their own: l's is not touched.
Derive(l, derived, asked) ==
    /\ sinks # <<>> /\ Len(loggers) < MaxLoggers
    /\ slices' = Append(slices, derived)
    /\ loggers' = Append(loggers, [slice |-> Len(slices) + 1, asked |-> asked])
    /\ UNCHANGED <<setup, arrays, call, kept>>

Children(l) == slices[loggers[l].slice]

\* A plausible bug: the group is opened on the primary, the extras are lost.
WithGroupOnPrimary(l) ==
    Derive(l, <<GroupOn(Children(l)[1], l)>>, GroupOn(loggers[l].asked, l))

WithAttrs(l) ==
    Derive(l, [i \in Indices |-> AttrOn(Children(l)[i], l)], AttrOn(loggers[l].asked, l))

WithGroup(l) ==
    Derive(l, [i \in Indices |-> GroupOn(Children(l)[i], l)], GroupOn(loggers[l].asked, l))

-----------------------------------------------------------------------------
(* One call of a logger.                                                   *)

Enabled(level) == \E i \in Indices : sinks[i].level <= level

\* slog builds the record, its slice with some spare room, if a child wants it.
Log(l, level, n, spare, span) ==
    /\ call.pc = "idle" /\ sinks # <<>>
    /\ LET keys == [j \in 1..n |-> Key("attr", j)]
           inFront == IF n < FrontSize THEN n ELSE FrontSize
           back == SubSeq(keys, inFront + 1, n)
           room == IF back = <<>> THEN 0 ELSE spare
           record == [front |-> SubSeq(keys, 1, inFront),
                      array |-> IF back = <<>> THEN 0 ELSE 1,
                      len |-> Len(back), cap |-> Len(back) + room]
       IN  /\ call' = [Idle EXCEPT !.pc = IF Enabled(level) THEN "handle" ELSE "done", !.logger = l, !.level = level,
                                   !.record = record, !.attrs = keys, !.span = span]
           /\ arrays' = IF back = <<>> THEN <<>> ELSE <<back \o [j \in 1..room |-> None]>>
    /\ UNCHANGED <<setup, slices, loggers, kept>>

\* One sink is the logger's handler itself: no fan-out, no clone.
Clone(r) == IF Len(sinks) = 1 THEN r ELSE SlogClone(r)

\* traceAttrHandler adds the span to a clone of its own.
TraceAttrs(i, r) ==
    IF sinks[i].adds = "span" /\ call.span THEN AddAttrs(SlogClone(r), Trace)
    ELSE IF sinks[i].adds = "own" THEN AddAttrs(r, <<Own>>)
    ELSE [record |-> r, arrays |-> arrays]

Following(failed) == call.next + 1
Joined(failed) == IF failed THEN call.errs \cup {call.next} ELSE call.errs

\* One child of the loop: it gets a clone, and may fail.
HandleChild(failed) ==
    /\ call.pc = "handle" /\ call.next \in Indices /\ Accepts(call.next)
    /\ LET i == call.next
           given == TraceAttrs(i, Clone(call.record))
       IN  /\ arrays' = given.arrays
           /\ kept' = Append(kept, [sink |-> i, handler |-> Children(call.logger)[i], record |-> given.record])
    /\ call' = [call EXCEPT !.next = Following(failed), !.errs = Joined(failed)]
    /\ UNCHANGED <<setup, slices, loggers>>

SkipChild ==
    /\ call.pc = "handle" /\ call.next \in Indices /\ ~Accepts(call.next)
    /\ call' = [call EXCEPT !.next = @ + 1]
    /\ UNCHANGED <<setup, slices, loggers, arrays, kept>>

HandleReturns ==
    /\ call.pc = "handle" /\ call.next > Len(sinks)
    /\ call' = [call EXCEPT !.pc = "done"]
    /\ UNCHANGED <<setup, slices, loggers, arrays, kept>>

Next ==
    \/ ApplyOption \/ InitReturns
    \/ \E l \in 1..Len(loggers) : WithAttrs(l) \/ WithGroup(l)
    \/ \E l \in 1..Len(loggers), level \in Levels, n \in 0..MaxAttrs, spare \in {0, 2}, span \in BOOLEAN :
          Log(l, level, n, spare, span)
    \/ \E failed \in BOOLEAN : HandleChild(failed)
    \/ SkipChild \/ HandleReturns

Spec == Init /\ [][Next]_vars

-----------------------------------------------------------------------------
(* Properties.                                                             *)

Asked == loggers[call.logger].asked

Extra(i) ==
    CASE sinks[i].adds = "span" /\ call.span -> Trace
      [] sinks[i].adds = "own" -> <<Own>>
      [] OTHER -> <<>>

\* What a sink was given reads, then and ever after, as what the logger's
\* With and WithGroup asked for, the attributes of the call and the sink's
\* own additions: nothing of a sibling's, of a later With on another logger,
\* and no "!BUG" (fanout.go:42-45, traceattrs.go:40, fanout.go:52-66).
NoCrosstalk ==
    \A k \in Kept : Reads(k) = Asked.attrs \o Qualified(Asked, call.attrs \o Extra(k.sink))

\* The last value that the first n options give for one of them, or the default.
ChosenBy(n, name, default) ==
    LET given == {i \in 1..n : options[i].name = name}
    IN  IF given = {} THEN default ELSE options[CHOOSE i \in given : \A j \in given : j <= i].value
Chosen(name, default) == ChosenBy(Len(options), name, default)

ExtrasBy(n) == FlattenSeq([i \in 1..n |-> IF options[i].name = "extras" THEN options[i].value ELSE <<>>])

To(sink) == <<sink.to, sink.format>>
At(place, min) == IF min <= call.level THEN <<place>> ELSE <<>>

\* The first n of some sinks, those that accept the record.
Accepting(some, n) == FlattenSeq([i \in 1..n |-> At(To(some[i]), some[i].level)])

Reached == [j \in 1..Len(kept) |-> To(sinks[kept[j].sink])]

\* When Handle has returned, the record has been given, once each and in this
\* order, whatever the sinks before answered and in whatever order the options
\* came: to the collector or else the chosen output, at the chosen level; to
\* every extra that accepts it; and to the mirror, at the chosen level.  So
\* what the toolkit itself sends to stderr never appears there twice
\* (logging.go:50-60, 84-132, init.go:75-115, fanout.go:36-50).
EverySinkReached ==
    call.pc = "done" =>
        LET level == Chosen("level", 0)
            output == Chosen("output", "nil")
            format == Chosen("format", "auto")
            shape == IF format # "auto" THEN format ELSE IF env.pod THEN "json" ELSE "text"
            extras == ExtrasBy(Len(options))
        IN  Reached = (IF env.otlp THEN << <<"collector", "otlp">> >>
                       ELSE At(<<IF output = "nil" THEN "stderr" ELSE output, shape>>, level))
                      \o Accepting(extras, Len(extras))
                      \o (IF Chosen("mirror", FALSE) THEN At(<<"stderr", "json">>, level) ELSE <<>>)

\* Once a sink has failed, its error stays among those Handle joins until
\* Handle returns, and no sink's is invented (fanout.go:45-49).
ErrorsAreJoined ==
    [][call'.pc # "idle" /\ call.pc # "idle" =>
          /\ call.errs \subseteq call'.errs
          /\ call'.errs \ call.errs \subseteq {call.next} \cap {k.sink : k \in Kept'}]_vars

\* "The emitted records carry trace_id / span_id keys" (traceattrs.go:19-21):
\* a record logged within a span has a trace_id key in a wrapped sink, where
\* a reader looks for it, outside every group.
TraceIdIsTopLevel ==
    \A k \in Kept : sinks[k.sink].adds = "span" /\ call.span => (\E j \in 1..Len(Reads(k)) : Reads(k)[j] = <<<<>>, Trace[1]>>)

-----------------------------------------------------------------------------
(* What makes the safety properties inductive.                             *)

\* A record's slice lies in its array, and has one only if the front is full.
Fits(arrs, r) ==
    /\ r.len <= r.cap /\ Len(r.front) <= FrontSize
    /\ r.array = 0 => r.cap = 0
    /\ r.array # 0 => /\ r.array <= Len(arrs) /\ r.cap <= Len(arrs[r.array])
                      /\ Len(r.front) = FrontSize

Content(arrs, r) == r.front \o BackIn(arrs, r)

\* Nobody has written behind the record's slice.
Untouched(r) == \A j \in (r.len + 1)..r.cap : arrays[r.array][j] = None

\* Every logger's handlers are what was asked of it; before Init has returned
\* there is no logger.
DerivedInv ==
    /\ applied <= Len(options) => sinks = <<>> /\ loggers = <<>> /\ call.pc = "idle"
    /\ \A l \in 1..Len(loggers) : \A i \in Indices : Children(l)[i] = loggers[l].asked
    /\ call.pc # "idle" => call.logger \in 1..Len(loggers)

\* The record is the call's as long as there are sinks to hand it to, and its
\* spare room, which only a sole sink may use, is not used before.
RecordInv ==
    /\ call.pc = "idle" => kept = <<>>
    /\ call.next = 1 => kept = <<>>
    /\ call.pc = "handle" =>
          /\ Fits(arrays, call.record) /\ Content(arrays, call.record) = call.attrs
          /\ kept = <<>> => Untouched(call.record)

KeptInv ==
    \A j \in 1..Len(kept) :
        /\ kept[j].handler = Asked
        /\ Fits(arrays, kept[j].record)
        /\ Content(arrays, kept[j].record) = call.attrs \o Extra(kept[j].sink)

IInv == TypeOK /\ DerivedInv /\ RecordInv /\ KeptInv

\* The config is what the options applied so far ask for, the sinks are what
\* LoggingInit makes of it, and the record has been given to those that accept
\* it among the sinks that Handle has been through.
OptionsInv ==
    LET n == IF applied <= Len(options) THEN applied ELSE Len(options)
    IN  config = [format |-> ChosenBy(n, "format", "auto"), level |-> ChosenBy(n, "level", 0),
                  output |-> ChosenBy(n, "output", "nil"), extras |-> ExtrasBy(n),
                  mirror |-> ChosenBy(n, "mirror", FALSE)]

ReachedInv ==
    /\ sinks = IF applied <= Len(options) THEN <<>> ELSE LoggingInit(config)
    /\ call.pc # "idle" => sinks # <<>> /\ call.level \in Levels
    /\ call.pc = "handle" => Reached = Accepting(sinks, call.next - 1)
    /\ call.pc = "done" => Reached = Accepting(sinks, Len(sinks))

DInv == IInv /\ OptionsInv /\ ReachedInv
=============================================================================
