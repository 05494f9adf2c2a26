-------------------------------- MODULE MCCafe --------------------------------
(* Two items of the menu and the item of the sales demo, and a message for *)
(* each rule.                                                              *)
EXTENDS CafeDesk

CONSTANTS latte, mocha

MCItems == {latte, mocha, Demo}

Line(hits, names) == [hits |-> hits, names |-> names, signs |-> FALSE]

MCNotes ==
    {Line({c}, {}) : c \in {"resend", "cancel", "claim", "pickup", "yes"}}
    \cup {Line({c}, {latte}) : c \in {"resend", "info", "repeat", "bare"}}
    \cup {Line({"demo"}, {Demo}), Line({"repeat"}, {latte, mocha}),
          [Line({"repeat"}, {mocha}) EXCEPT !.signs = TRUE]}
===============================================================================
