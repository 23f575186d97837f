------------------------------- MODULE MCRunner -------------------------------
EXTENDS Runner

MCCheckModel == [host |-> "any", shell |-> "any", scan |-> "any", both |-> "any",
                 reset |-> "m2", old |-> "any"]
MCRegistry == <<"host", "shell", "scan", "both", "reset", "old">>
MCNeeds == [host |-> {}, shell |-> {"console"}, scan |-> {"mgmt"}, both |-> {"mgmt", "console"},
            reset |-> {}, old |-> {"craft"}]
MCNeedsActions == [host |-> {}, shell |-> {"power"}, scan |-> {}, both |-> {}, reset |-> {"power"},
                   old |-> {}]

Driver(serial, agent) == [serial |-> serial, agent |-> agent]
MCDrivers == [b1 |-> [console |-> Driver(TRUE, "wired"), mgmt |-> Driver(FALSE, "none")],
              b2 |-> [console |-> Driver(TRUE, "none"), mgmt |-> Driver(FALSE, "wired"),
                      craft |-> Driver(FALSE, "gone")]]
MCBoardSeq == <<"b1", "b2">>
MCBoardModel == [b1 |-> "m1", b2 |-> "m2"]
MCBoardActions == [b1 |-> {"power"}, b2 |-> {}]

Req(tests, fallback) == [tests |-> tests, fallback |-> fallback]
TestSeqs == {<<>>, <<"host">>, <<"scan", "host">>, <<"scan", "shell">>, <<"shell", "scan">>,
             <<"both", "lost">>, <<"scan", "both">>, <<"reset">>}
Map(reqs, model) == [kind |-> "map", reqs |-> reqs, model |-> model, include |-> <<>>, exclude |-> {}]
MCSuites ==
  {Map(<<Req(s, "gap"), Req(t, "pass")>>, "any") : s, t \in TestSeqs}
  \cup {Map(<<Req(<<"reset", "scan">>, "gap")>>, m) : m \in {"m1", "m2"}}
  \cup {[kind |-> "ids", reqs |-> <<>>, model |-> "any", include |-> <<"scan", "host", "shell", "old">>,
         exclude |-> {"host"}]}

=============================================================================
