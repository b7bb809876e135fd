------------------------------ MODULE PrivateTx ------------------------------
(***************************************************************************)
(* Which requests QuorumTxHandler (privatetx/quorum.go) takes for private   *)
(* transactions, and whom it takes for their participants.                  *)
(*                                                                          *)
(* A request is abstracted to                                               *)
(*   batch    a JSON array of requests instead of one                       *)
(*   method   the name of its method, or NotAString                         *)
(*   params   for each parameter whether it has a privateFor field, whether *)
(*            that is an array of strings, and its keys                     *)
(*   mention  the text privateFor also stands somewhere else in the body    *)
(***************************************************************************)
EXTENDS Naturals, Sequences

\* A method that is some other JSON value.
NotAString == "not a string"

\* The methods that carry private transactions, and the parameters they take.
pvtReqParamMap ==
    [eth_sendTransaction              |-> 1,
     eth_sendRawPrivateTransaction    |-> 2,
     eth_signTransaction              |-> 1,
     personal_signTransaction         |-> 2,
     quorumExtension_extendContract   |-> 4,
     quorumExtension_approveExtension |-> 3,
     eth_estimateGas                  |-> 1]

NotPrivate == [err |-> FALSE, keys |-> << >>]

WithField(msg) == {i \in DOMAIN msg.params : msg.params[i].has}

containsPrivateTxKeyWords(msg) == msg.mention \/ WithField(msg) # {}

\* The method is known and has the right number of parameters.
Expected(msg) ==
    /\ msg.method \in DOMAIN pvtReqParamMap
    /\ Len(msg.params) = pvtReqParamMap[msg.method]

\* The first parameter with a privateFor field.
First(msg) == CHOOSE i \in WithField(msg) : \A j \in WithField(msg) : i <= j

\* Mutant of validatePrivateReq: only the first parameter is looked at.
validateFirstParam(msg) ==
    IF Expected(msg) /\ 1 \in WithField(msg) THEN msg.params[1].keys ELSE << >>

\* Its keys are the participants.
validatePrivateReq(msg) ==
    IF Expected(msg) /\ WithField(msg) # {} THEN msg.params[First(msg)].keys
                                           ELSE << >>

\* The type assertions on the method and in privKeys panic. The HTTP server
\* recovers and drops the request, so that it ends like one that is refused.
Panics(msg) ==
    \/ msg.method = NotAString
    \/ Expected(msg) /\ WithField(msg) # {} /\ ~msg.params[First(msg)].typed

\* A batch does not unmarshal into a map.
decodePvtTx(msg) ==
    IF msg.batch \/ Panics(msg)
    THEN [err |-> TRUE, keys |-> << >>]
    ELSE [err |-> FALSE, keys |-> validatePrivateReq(msg)]

\* No keys (nil in the code) means: not private.
IsPrivateTx(msg) ==
    IF containsPrivateTxKeyWords(msg) THEN decodePvtTx(msg) ELSE NotPrivate

==============================================================================
