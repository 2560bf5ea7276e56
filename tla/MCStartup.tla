----------------------------- MODULE MCStartup -----------------------------
\* Hooks: three beans, every declaration among them with every choice of hooks,
\* and every DependsOn by hand; priority, order and name each decide one
\* comparison.  Graphs: every graph over three beans, whose orders disagree
\* with their names.  Events: two goroutines; a plain listener, one with
\* priority and one that takes a single event, subscribed in any order, the
\* same one twice included.  Registration: two beans of one name, a tie of
\* priorities and two primaries; a configuration whose condition needs another's
\* profile, one that is sorted before it, and two that add one source.
EXTENDS Startup

CONSTANTS r1, r2, h1, h2, h3, t1, t2, audit, cache, plain, refreshed, started

MCMeta ==
  h1 :> [priority |-> FALSE, order |-> 1, name |-> 1] @@
  h2 :> [priority |-> FALSE, order |-> 1, name |-> 3] @@
  h3 :> [priority |-> TRUE,  order |-> 2, name |-> 2]
MCOrder == [x \in 1 .. N |-> N - x]
MCOptions == [h \in Handler |-> [priority |-> h = cache, order |-> IF h = plain THEN 1 ELSE 2]]
MCAccepts == [h \in Handler |-> IF h = audit THEN {started} ELSE Event]

MCBean(name, type, primary, priority, prototype) ==
  [name |-> name, type |-> type, primary |-> primary, priority |-> priority, prototype |-> prototype,
   descriptors |-> {}, dependsOn |-> {}, dependencies |-> {}]
MCSql == [MCBean("sql", "Sql", FALSE, 1, FALSE) EXCEPT !.dependencies = {"disk"},
            !.descriptors = {[name |-> "disk", kind |-> "injection", optional |-> TRUE]}]
MCMem == [MCBean("mem", "Mem", TRUE, 0, FALSE) EXCEPT !.dependsOn = {"sql"}]
MCDisk == MCBean("disk", "Sql", TRUE, 0, TRUE)
MCFake == MCBean("disk", "Mem", FALSE, 1, FALSE)
MCCopy == MCBean("copy", "Sql", FALSE, 2, FALSE)
MCDefinitions == {MCSql, MCMem, MCDisk, MCFake, MCCopy}
MCConfiguration(name, position, priority, source, profile, condition, definitions) ==
  [name |-> name, order |-> position, priority |-> priority, source |-> source, profile |-> profile,
   condition |-> condition, definitions |-> definitions]
MCConfigurations == {
  MCConfiguration("auto", 2, FALSE, "", "dev", "", <<MCSql>>),
  MCConfiguration("extra", 1, FALSE, "file", "", "dev", <<MCDisk, MCMem>>),
  MCConfiguration("test", 1, TRUE, "file", "", "", <<MCFake>>)}
MCAssignable == {<<"Sql", "Sql">>, <<"Mem", "Mem">>, <<"Sql", "Store">>, <<"Mem", "Store">>}
MCQuestion(all, type, qualifier) == [all |-> all, type |-> type, qualifier |-> qualifier]
MCQuestions == {MCQuestion(TRUE, "Store", "none"), MCQuestion(FALSE, "Store", "none"),
                MCQuestion(FALSE, "Sql", "none"), MCQuestion(FALSE, "Sql", "mem")}
MCRank == [n \in {"sql", "mem", "disk", "copy", "auto", "extra", "test"} |->
             CASE n \in {"copy", "auto"} -> 1 [] n \in {"disk", "extra"} -> 2 [] n \in {"mem", "test"} -> 3 [] OTHER -> 4]
=============================================================================
