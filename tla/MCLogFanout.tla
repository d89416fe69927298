----------------------------- MODULE MCLogFanout -----------------------------
(* Up to three extras and the mirror, the options in several orders;         *)
(* records with none, one (in the copied front) or two attributes, with and  *)
(* without spare room behind them; two loggers derived while the call runs.  *)
EXTENDS LogFanout

Debug == -1
MCLevels == {-1, 0, 1}
Warn == 1
Level(l) == Option("level", l)
Extras(handlers) == Option("extras", handlers)
File(adds) == Sink("file", Warn, "json", adds)
Audit(adds) == Sink("audit", Debug, "text", adds)
Mirror == Option("mirror", TRUE)

MCMirrored == {<<Mirror>>}

MCOptionLists ==
    {<<>>, <<Level(Warn)>>, <<Option("format", "json"), Option("format", "auto")>>, <<Option("format", "json"), Option("output", "own")>>, <<Mirror, Level(Warn)>>,
     <<Level(Debug), Mirror, Level(Warn)>>, <<Option("output", "own"), Option("output", "nil"), Level(Debug)>>}
    \cup {<<Extras(<<Audit(adds)>>), Level(Warn), Extras(<<File("own")>>)>> : adds \in {"nothing", "span", "own"}}
    \cup {<<Extras(<<File(adds), Audit("own")>>)>> : adds \in {"nothing", "span"}}
    \cup {<<Mirror, Extras(<<Audit(adds)>>), Level(l)>> : adds \in {"nothing", "own"}, l \in {Debug, Warn}}
    \cup {<<Extras(<<File("own"), Audit("span")>>), Mirror, Extras(<<Audit(adds)>>)>> : adds \in {"span", "own"}}
=============================================================================
