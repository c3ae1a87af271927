----------------------------- MODULE ModelCall -----------------------------
(***************************************************************************)
(* One call of a language model: which providers and models a              *)
(* configuration of the ProviderManager (src/providers/index.ts) lets it   *)
(* ask, in which order, and what whoever made it may rely on.              *)
(***************************************************************************)
EXTENDS SequencesExt

CONSTANTS Model,
          Own,           \* the provider a model's name stands for (findProviderByModel), if any
          Gateways,      \* GATEWAY_PROVIDERS, in order
          Unbuilt,       \* providers getProviderInstance can not make
          MaxFallbacks   \* length of fallbackModels

VARIABLES
    asked, fallbacks,  \* the model asked for, and the configured ones
    keyed,             \* providers with a key
    helper,            \* where completeWithFallback or streamWithFallback is
    asks,              \* the provider's side of each attempt
    said               \* the attempts that the tokens given out came from

-----------------------------------------------------------------------------
(* Routing.                                                                *)

(* The place of the first gateway that has a key, 0 without one.           *)
FirstGateway == SelectInSeq(Gateways, LAMBDA g : g \in keyed)

(* isModelRoutable *)
Routable(m) == Own[m] \in keyed \/ FirstGateway # 0

(* detectProvider: without a key for the model's own provider or a gateway *)
(* it takes the first provider there is, whoever that is.                  *)
Detected(m) ==
    IF Own[m] \in keyed THEN {Own[m]}
    ELSE IF FirstGateway # 0 THEN {Gateways[FirstGateway]}
    ELSE keyed

(* getProviderInstance *)
Instances(m) == Detected(m) \ Unbuilt

(* resolveModelChain, and what it has after the first n fallbacks.         *)
ChainAfter[n \in 0 .. Len(fallbacks)] ==
    IF n = 0 THEN <<asked>>
    ELSE IF Contains(ChainAfter[n - 1], fallbacks[n]) \/ ~Routable(fallbacks[n])
         THEN ChainAfter[n - 1]
         ELSE Append(ChainAfter[n - 1], fallbacks[n])

Chain == ChainAfter[Len(fallbacks)]

-----------------------------------------------------------------------------
(* The words of one reply are all one model's: "switching mid-reply would  *)
(* make the assistant speak the answer twice" (fallback.ts).               *)
OneVoice == \A i, j \in DOMAIN said : said[i] = said[j]

(* Somebody who serves the model can be asked for it.                      *)
Reachable(m) == Routable(m) /\ Instances(m) # {}

(* A call fails without a word only when it has asked every model of the   *)
(* configuration that has a provider to go to, and no fallback was sent to *)
(* a provider that is neither its own nor a gateway ("rather than          *)
(* misrouting them", isModelRoutable).                                     *)
EveryModelTried ==
    /\ helper = "failed" /\ said = <<>> =>
          \A m \in {asked} \cup {fallbacks[i] : i \in DOMAIN fallbacks} :
             Reachable(m) => \E i \in DOMAIN Chain : Chain[i] = m /\ asks[i] # "none"
    /\ \A i \in 2 .. MaxFallbacks + 1 :
          asks[i] # "none" =>
             \A p \in Detected(Chain[i]) : p = Own[Chain[i]] \/ Contains(Gateways, p)
=============================================================================
