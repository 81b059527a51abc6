----------------------------- MODULE MCConfigForm -----------------------------
EXTENDS ConfigForm, TLC

\* What the form's inputs can deliver: text typed or emptied, numbers typed or
\* emptied, checkboxes, and a ratio that does or does not match the pattern.
MCFormInputs ==
    [server |-> {"localhost", "db1", ""}, port |-> {6379, 6380, EmptyInput},
     authenticate |-> {"", "pw"}, tls |-> BOOLEAN, clients |-> {50, 4},
     requests |-> {10000, EmptyInput},
     ratio |-> {Ratio(1, 10), Ratio(BadText, BadText)},
     dataSize |-> {32, 64}, keyMaximum |-> {10000000, EmptyInput},
     randomData |-> BOOLEAN]

\* The same, where the data size input can also be emptied.
MCFormInputsCleared == [MCFormInputs EXCEPT !.dataSize = {32, EmptyInput}]

\* An imported preset with the fields the form does not show.
MCPresets ==
    { [mergeWithDefaults(<< >>) EXCEPT
         !.commands = << [command |-> "SET __key__ x", ratio |-> 2, keyPattern |-> "R"],
                         [command |-> "GET __key__", ratio |-> 1, keyPattern |-> "G"] >>,
         !.selectDb = 0, !.multiKeyGet = 2, !.testTime = 30, !.numSlaves = "1-3",
         !.requests = AllKeys] }
====
