----------------------------- MODULE MCLlmRouter -----------------------------
(***************************************************************************)
(* Instances of LlmRouter: a cut of the real catalogue (two Gemini models, *)
(* one Groq model) with limits small enough to be reached by two calls.    *)
(***************************************************************************)
EXTENDS LlmRouter

CONSTANTS c1, c2, g35, g31, groq

TwoModels == <<g35, g31>>
StaticChain == <<g31, groq>>
ShortChain  == <<g31>>

BothChoose == [c \in Calls |-> IF c = c1 THEN g35 ELSE g31]
NobodyPins == [c \in Calls |-> NoChoice]
OnePins    == [c \in Calls |-> IF c = c1 THEN NoChoice ELSE g31]

OwnWallet  == [a \in Models |-> a]
\* One wallet for both Gemini models, as for the models of an account.
OneAccount == (g35 :> g35) @@ (g31 :> g35) @@ (groq :> groq)

Plenty     == [a \in Models |-> 100]
OneADay    == [a \in Models |-> 1]
ThreeTokens == [a \in Models |-> 3]
OneToken   == [a \in Models |-> 1]

OneKey     == [a \in Models |-> 1]

\* Two keys for each Gemini model: calls that meet on one share its ring.
SharedKeys == (g35 :> 2) @@ (g31 :> 2) @@ (groq :> 1)

FourTicks  == (g35 :> 4) @@ (g31 :> 4) @@ (groq :> 2)
TwoTicks   == [a \in Models |-> 2]
=============================================================================
