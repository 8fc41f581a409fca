------------------------------ MODULE MCParts ------------------------------
(***************************************************************************)
(* TLC instance of the parts that stand alone (Parts), and the             *)
(* calculations (Calculations), each of which is one behaviour in which no *)
(* part runs.                                                              *)
(***************************************************************************)
EXTENDS Parts, Calculations

MCFrameSizes == {<<2, 1>>, <<1, 1>>}
MCBoxSizes == {<<2, 2>>, <<3, 2>>}
MCImageSizes == {<<4, 4>>, <<2, 3>>}
MCContext == <<4, 4>>
MCPosition == <<1, 3>>
\* Two formats differ in the flags only.
Format(rate, channels, flags) == [rate |-> rate, channels |-> channels, bits |-> 16, flags |-> flags, bytes |-> 2]
MCFormats == {Format(2, 1, 0), Format(2, 1, 4), Format(3, 1, 0)}
MCOutputs == {[rate |-> 3, channels |-> 1], [rate |-> 4, channels |-> 2]}
-----------------------------------------------------------------------------
(* The inputs of the calculations.                                         *)
Lengths == {0, 1, Base^2 - 2, Base^2 - 1, Base^2}
Code == <<1, 2>>
MCSkipped == {[t |-> "number", v |-> 3 * Base + 5], [t |-> "bool", v |-> 1], [t |-> "null", v |-> 0]}
Values == MCSkipped \cup [t : {"string"}, v : {<<>>, <<3, 5, 9>>}]
Keys == {<<<<1>>, Code>>, <<Code, <<1>>>>, <<<<1>>, <<1, 2, 3>>>>, <<<<>>, Code>>, <<Code, Code>>}
UpTo(S, n) == UNION {[1..k -> S] : k \in 0..n}
MCInputs ==
    [kind : {"string"}, s : {[i \in 1..n |-> i % Base] : n \in Lengths}]
    \cup [kind : {"control"}, streamId : {0, 1, Base + 5, Base32 - 1}, value : {0, Base^3, Base32 - 1}]
    \cup [kind : {"status"}, before : UpTo(MCSkipped, 2), code : {Code},
          properties : {[i \in 1..2 |-> [name |-> names[i], value |-> values[i]]] :
                          names \in Keys, values \in [1..2 -> Values]}]
    \cup [kind : {"mix"}, a : Int16, b : Int16]
    \cup [kind : {"convert"}, v : -(2 * Half * Half)..(2 * Half * Half - 1)]
    \cup [kind : {"resample"}, outRate : 1..4,
          in : [rate : 1..4, bits : {8, 16, 24, 32}, channels : 1..2, frames : 0..5, float : BOOLEAN]]
    \cup [kind : {"colour"}, colour : [Colour -> {0, 2500, 5000, Unit}]]
    \cup [kind : {"asc"}, rate : Accepted, channels : 1..2]
\* The bodies of the commands are the same in every behaviour.
ASSUME MCCommandsAssumption == CommandsComplete
ASSUME MCInputsAssumption == MCInputs \subseteq Inputs

MCInit ==
    /\ Init
    /\ input \in IF part = "none" THEN MCInputs ELSE [kind : {"none"}]
    /\ part # "video" => bounding = <<2, 2>> /\ m_aspectMode = "fit" /\ size = <<4, 4>>
    /\ part # "converter" => out.rate = 3
MCSpec == MCInit /\ [][Next /\ UNCHANGED input]_<<vars, input>> /\ Adaptation!Fairness
=============================================================================
