-------------------------- MODULE MCStaticReporting --------------------------
(***************************************************************************)
(* Three binary inputs with a gap in their indices and four analog inputs, *)
(* in a fragment that holds few of them; and 256 binary inputs.            *)
(***************************************************************************)
EXTENDS StaticReporting

Meas(value, flags) == [value |-> value, quality |-> flags]
Online(value)      == Meas(value, {"ONLINE"})

BinaryAt(vIndex) == InitialCell(vIndex, 1, Online(0))
AnalogAt(vIndex) == InitialCell(vIndex, 1, Online(0))

SmallCells == [Binary |-> [i \in 0 .. 2 |-> BinaryAt(<<2, 3, 6>>[i + 1])],
               Analog |-> [i \in 0 .. 3 |-> AnalogAt(<<0, 2, 3, 6>>[i + 1])]]

SmallUpdates ==
    {[type |-> "Binary", index |-> 3, value |-> m, mode |-> mode] :
        m \in {Online(1), Online(0), Meas(1, {"COMM_LOST"})}, mode \in {"Detect"}}
    \cup {[type |-> "Binary", index |-> 6, value |-> Online(1), mode |-> mode] :
            mode \in {"Suppress", "Force"}}
    \cup {[type |-> "Analog", index |-> 3, value |-> Online(n), mode |-> "Detect"] :
            n \in {0, 40000}}
    \cup {[type |-> "Analog", index |-> 4, value |-> Online(7), mode |-> "Detect"]}

All(gv)             == [gv |-> gv, all |-> TRUE, range |-> Invalid]
Some(gv, from, to)  == [gv |-> gv, all |-> FALSE, range |-> [start |-> from, stop |-> to]]

SmallRequests ==
    {<<All(<<60, 1>>)>>,
     <<All(<<60, 2>>), All(<<60, 1>>)>>,
     <<All(<<60, 2>>)>>,
     <<Some(<<1, 2>>, 3, 6), All(<<1, 0>>)>>,
     <<Some(<<30, 2>>, 1, 3), Some(<<30, 0>>, 4, 5)>>,
     <<Some(<<30, 4>>, 2, 7)>>}

SmallAssignments == {<<All(<<60, 1>>), All(<<1, 0>>)>>,
                     <<All(<<60, 1>>), All(<<60, 3>>), Some(<<30, 0>>, 2, 9)>>,
                     <<All(<<60, 1>>), Some(<<30, 0>>, 2, 9)>>}

SmallClass0 == {"Binary", "Analog"}

FullCells   == [Binary |-> [i \in 0 .. 255 |-> InitialCell(i, 2, Online(0))]]
FullUpdates == {[type |-> "Binary", index |-> 255, value |-> Online(1), mode |-> "Detect"]}
OneRequest  == {<<All(<<60, 1>>)>>}
=============================================================================
