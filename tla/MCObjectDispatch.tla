-------------------------- MODULE MCObjectDispatch --------------------------
(* Two servers: one of every kind of interface, and one where a name is used  *)
(* twice among siblings.                                                      *)
EXTENDS ObjectDispatch

Node(d, name, interfaces) ==
  [depth |-> d, name |-> name, publish |-> TRUE, interfaces |-> interfaces]
Root     == Node(1, <<Slash, "r">>, <<>>)
Objects  == [depth |-> 1, name |-> <<Slash>>, publish |-> FALSE,
             interfaces |-> <<Manager>>]
Services(d, name) == Node(d, name, <<GattKinds[d]>>)

EveryKind ==
  [tree |-> <<Root, Services(2, <<"s">>), Services(3, <<"c">>), Services(4, <<"d">>),
              Objects>>,
   members |-> CharacteristicBegun(<<3, 1>>, {"notify"})
                 \o <<Member(<<3, 1>>, "property", "Value", TRUE)>>
                 \o Begun(<<4, 1>>)
                 \o <<Member(<<5, 1>>, "method", "GetManagedObjects", TRUE)>>,
   events |-> <<[slot |-> <<3, 1>>, frequency |-> 2],
                [slot |-> <<4, 1>>, frequency |-> 0],
                [slot |-> <<5, 1>>, frequency |-> 1]>>]

SameNames ==
  [tree |-> <<Root, Services(2, <<"s">>), Services(3, <<"c">>), Services(3, <<"c">>),
              Services(3, <<"e">>), Objects>>,
   members |-> CharacteristicBegun(<<3, 1>>, {"indicate"})
                 \o CharacteristicBegun(<<4, 1>>, {"read"})
                 \o <<Member(<<4, 1>>, "method", "ReadValue", TRUE),
                      Member(<<4, 1>>, "method", "WriteValue", FALSE)>>
                 \o CharacteristicBegun(<<5, 1>>, {"notify"}),
   events |-> <<[slot |-> <<4, 1>>, frequency |-> 3]>>]

Distinct ==
  [SameNames EXCEPT !.tree[4].name = <<"f">>]

MCServers == {EveryKind, SameNames, Distinct}
=============================================================================
