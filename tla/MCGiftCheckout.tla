--------------------------- MODULE MCGiftCheckout ---------------------------
(* Two products, one of them a custom box with an engraving, and the       *)
(* messages that meet each rule and each pair of rules that overlap.       *)
EXTENDS GiftCheckout, TLC

CONSTANTS b1, b2, here

MCBoxes == {b1, b2}
MCEngraved == {b2}
MCValues == {"said", here, "KES", "USD", "phone", "email"}

Nothing == [s \in Asked |-> None]

\* Any text answers the free questions.
Text == [Nothing EXCEPT !["name"] = "said", !["location"] = here, !["window"] = "said",
                        !["contact"] = "email"]

Says(hits, says) ==
    [hits |-> hits, edit |-> None, says |-> says, form |-> Nothing, box |-> None]

Hit(kind) == Says({kind}, Text)

Filled(payment, contact) ==
    [Text EXCEPT !["payment"] = payment, !["contact"] = contact]

FormOf(kind, box, form) ==
    [hits |-> {kind}, edit |-> None, says |-> Text, form |-> form, box |-> box]

MCMessages ==
    {Hit(k) : k \in {"home", "sendStk", "clearCart", "aside", "photo", "catalog",
                     "back", "status", "cancelDraft"}}
    \cup {Says({"yes", "confirms", "aside"}, Text),                \* sawa
          Says({"resend", "status"}, Text),                        \* resend STK
          Says({"cancelPay", "cancelDraft"}, Text),                \* cancel order
          Says({}, [Text EXCEPT !["delivery_type"] = "said"]),
          Says({}, [Text EXCEPT !["payment"] = "USD"])}
    \cup {[Hit("aside") EXCEPT !.edit = s] : s \in {"location", "payment"}}
    \cup {FormOf("orderTap", b1, Nothing),
          FormOf("portalForm", b1, [Filled("KES", "phone") EXCEPT !["name"] = here]),
          FormOf("customForm", b2, Filled("USD", "email")),
          FormOf("customForm", b2, [Filled(None, "email") EXCEPT !["name"] = None])}
=============================================================================
