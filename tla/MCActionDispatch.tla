-------------------------- MODULE MCActionDispatch --------------------------
(***************************************************************************)
(* A small instance of ActionDispatch: a signature, a payment, a           *)
(* deployment and an e-mail, with parameters some of them lack.            *)
(***************************************************************************)
EXTENDS ActionDispatch

CONSTANTS party, other, h1, h2

Proposal(type, parameters, artifacts, evidence, profile) ==
  [id |-> "run", type |-> type, target |-> party, risk |-> RiskOf(type),
   parameters |-> parameters, artifacts |-> artifacts, evidence |-> evidence,
   profile |-> profile, created |-> 0]

Amount == [n \in {"amount"} |-> "100"]
Payment == [n \in {"amount", "destination"} |-> "100"]
Production == [n \in {"revision", "environment"} |-> "production"]

MCTypes == {"SIGN_DOCUMENT", "EXECUTE_PAYMENT", "DEPLOY_SOFTWARE", "SEND_EMAIL"}
MCParameterSets == {Amount, Payment, Production}
MCArtifactLists == {<<>>, <<h1, h2>>, <<h2, h1>>, <<h1, h1>>}

MCProposals ==
  {Proposal("SIGN_DOCUMENT", Amount, <<h1, h2>>, h1, h2),
   Proposal("EXECUTE_PAYMENT", Payment, <<>>, h1, None),
   Proposal("DEPLOY_SOFTWARE", Production, <<h2, h1>>, None, None)}
=============================================================================
