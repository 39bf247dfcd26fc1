---------------------------- MODULE CheckoutForm ----------------------------
(***************************************************************************)
(* The delivery part of the checkout page (app/checkout/page.tsx, with     *)
(* components/location-picker.tsx and components/place-search.tsx): a pin  *)
(* set on the map, by the device's position or by a suggested place; the   *)
(* address, typed or filled in with the name of the place; and the fee,    *)
(* quoted by the server some time after the pin has settled.               *)
(*                                                                         *)
(* Four answers can come late: the position, the name of the place, the    *)
(* quote, and the one to the order itself (see Purchase).  A new pin       *)
(* cancels the quote of the pin before it and aborts the lookup of its     *)
(* name, so those are dropped here; nothing cancels the position.          *)
(***************************************************************************)
CONSTANTS
    Pins,       \* places on the map
    NoPin

ASSUME NoPinAssumption == NoPin \notin Pins

VARIABLES
    pin,        \* the delivery location
    quote,      \* the fee shown: the pin it is for
    quoting,    \* isQuoting: the fee shown is not for the pin yet
    ask,        \* the run of the quote effect that is not cancelled
    address,    \* the address field: empty, typed, or the name of a pin
    typed,      \* addressTypedRef
    geocode,    \* the pin whose name is looked up, unless aborted
    unnamed     \* the last lookup found no name

formVars == <<pin, quote, quoting, ask, address, typed, geocode, unnamed>>

MaybePin == Pins \cup {NoPin}
NoAsk == [pin |-> NoPin, stage |-> "none"]

EmptyAddress == [by |-> "nobody", pin |-> NoPin]
TypedAddress == [by |-> "customer", pin |-> NoPin]
NameOf(p) == [by |-> "geocoder", pin |-> p]

FormTypeOK ==
    /\ pin \in MaybePin
    /\ quote \in MaybePin
    /\ quoting \in BOOLEAN
    /\ ask \in [pin : MaybePin, stage : {"none", "debounce", "sent"}]
    /\ address \in {EmptyAddress, TypedAddress} \cup {NameOf(p) : p \in Pins}
    /\ typed \in BOOLEAN
    /\ geocode \in MaybePin
    /\ unnamed \in BOOLEAN

\* The page as it opens.
FormInit ==
    /\ pin = NoPin
    /\ quote = NoPin
    /\ quoting = FALSE
    /\ ask = NoAsk
    /\ address = EmptyAddress
    /\ typed = FALSE
    /\ geocode = NoPin
    /\ unnamed = FALSE

\* The page opens anew, or closes: its effects are cleaned up.
ResetForm ==
    /\ pin' = NoPin
    /\ quote' = NoPin
    /\ quoting' = FALSE
    /\ ask' = NoAsk
    /\ address' = EmptyAddress
    /\ typed' = FALSE
    /\ geocode' = NoPin
    /\ unnamed' = FALSE

-----------------------------------------------------------------------------
(* The pin.                                                                *)

\* Mutant: the button stays as it is until the new quote is asked for.
ChangePin_NotQuoting(p) ==
    /\ pin' = p
    /\ quoting' = quoting
    /\ ask' = [pin |-> p, stage |-> "debounce"]
    /\ UNCHANGED quote

\* The quote effect runs again, and waits for the pin to settle.
ChangePin(p) ==
    /\ pin' = p
    /\ quoting' = TRUE
    /\ ask' = [pin |-> p, stage |-> "debounce"]
    /\ UNCHANGED quote

\* A tap on the map, the marker dragged, or the position of the device, which
\* comes whenever it comes, whatever was chosen since it was asked for: the name
\* of the place is looked up, unless the customer typed an address.
ChangePinFromMap(p) ==
    /\ ChangePin(p)
    /\ geocode' = IF typed THEN NoPin ELSE p
    /\ unnamed' = FALSE
    /\ UNCHANGED <<address, typed>>

-----------------------------------------------------------------------------
(* The address.                                                            *)

\* An address that is all blank counts as not typed.
TypeAddress(blank) ==
    /\ typed' = ~blank
    /\ address' = IF blank THEN EmptyAddress ELSE TypedAddress
    /\ UNCHANGED <<pin, quote, quoting, ask, geocode, unnamed>>

\* Mutant: the lookup for an earlier pin goes on.
SelectPlace_NoAbort(p) ==
    /\ address # EmptyAddress
    /\ typed' = FALSE
    /\ address' = NameOf(p)
    /\ geocode' = geocode
    /\ unnamed' = FALSE
    /\ ChangePin(p)

\* A suggestion for the text in the field is a name and a pin.  Once something
\* was typed, the names that are filled in are searched for as well.
SelectPlace(p) ==
    /\ address # EmptyAddress
    /\ typed' = FALSE
    /\ address' = NameOf(p)
    /\ geocode' = NoPin
    /\ unnamed' = FALSE
    /\ ChangePin(p)

NameFound ==
    /\ geocode # NoPin
    /\ address' = IF typed THEN address ELSE NameOf(geocode)
    /\ geocode' = NoPin
    /\ UNCHANGED <<pin, quote, quoting, ask, typed, unnamed>>

\* No name there, or the lookup failed: the field stays as it is.
NameNotFound ==
    /\ geocode # NoPin
    /\ geocode' = NoPin
    /\ unnamed' = TRUE
    /\ UNCHANGED <<pin, quote, quoting, ask, address, typed>>

-----------------------------------------------------------------------------
(* The quote.                                                              *)

AskQuote ==
    /\ ask.stage = "debounce"
    /\ ask' = [ask EXCEPT !.stage = "sent"]
    /\ UNCHANGED <<pin, quote, quoting, address, typed, geocode, unnamed>>

\* quote_cart_delivery: the server prices the cart, which must not be empty.
QuoteArrives(filled) ==
    /\ ask.stage = "sent"
    /\ filled
    /\ quote' = ask.pin
    /\ quoting' = FALSE
    /\ ask' = NoAsk
    /\ UNCHANGED <<pin, address, typed, geocode, unnamed>>

\* Out of range, an empty cart, or no answer.
QuoteFails ==
    /\ ask.stage = "sent"
    /\ quote' = NoPin
    /\ quoting' = FALSE
    /\ ask' = NoAsk
    /\ UNCHANGED <<pin, address, typed, geocode, unnamed>>

-----------------------------------------------------------------------------

FormNext(filled) ==
    \/ \E p \in Pins : ChangePinFromMap(p) \/ SelectPlace(p)
    \/ \E blank \in BOOLEAN : TypeAddress(blank)
    \/ NameFound \/ NameNotFound
    \/ AskQuote \/ QuoteArrives(filled) \/ QuoteFails

\* What the form asks of canSubmit: a fee is shown, and it is not being redone.
Priced == pin # NoPin /\ quote # NoPin /\ ~quoting

-----------------------------------------------------------------------------

\* "Pricing delivery" always has a timer or a request behind it that will end
\* it, however often the pin moved meanwhile: the page cannot keep its button
\* disabled for ever.
QuotingEnds == quoting => ask.stage # "none"

\* What the customer typed is in the field until they clear it or choose a
\* place: no name that was looked up before, and comes late, overwrites it.
TypedKept == typed => address = TypedAddress

\* An address filled in for a pin is that of the pin the order will be sent to,
\* unless the lookup is still out or found nothing, in whatever order pins were
\* dropped, places chosen and lookups answered.
AddressFollowsPin ==
    address.by = "geocoder" /\ geocode = NoPin /\ ~unnamed => address.pin = pin

=============================================================================
