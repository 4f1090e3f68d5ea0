-------------------------------- MODULE MCDce --------------------------------
(* An entry point (alive, unnamed or linked) and two declarations that are *)
(* alive only if they are found: a type or function, nameA or nameB, or a  *)
(* method, nameM, of one of them.  Each refers to any of the three names.  *)
(* The assumptions about sequential code are evaluated with it.            *)
EXTENDS DceSelector, TLC, MCAlgorithms, MCSourceMaps

CONSTANTS main, one, two, nameA, nameB, nameM

MCDecl == {main, one, two}
MCName == {nameA, nameB, nameM}

Method(object, methods, link) ==
    [alive : {FALSE}, objectFilter : object, methodFilter : methods,
     deps : SUBSET MCName, link : {link}]
Entry ==
    [alive : {TRUE}, objectFilter : {nameA}, methodFilter : {NoName},
     deps : SUBSET MCName, link : {FALSE}]
Unnamed ==
    [alive : {FALSE}, objectFilter : {NoName}, methodFilter : {NoName},
     deps : {{nameA}, {nameB, nameM}}, link : {FALSE}]

MCPrograms ==
    {(main :> i) @@ (one :> j) @@ (two :> k) :
        i \in Entry \cup Unnamed \cup Method({nameA}, {NoName, nameM}, TRUE),
        j \in Method({nameA, nameB}, {NoName, nameM}, FALSE),
        k \in Method({nameB}, {NoName, nameM}, FALSE)}
=============================================================================
