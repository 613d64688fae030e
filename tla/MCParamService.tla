---------------------------- MODULE MCParamService ----------------------------
(* Small injections: single records, a bad one between and around good ones. *)
EXTENDS ParamService

CONSTANTS s1, s2, s3, a1, a2

FactoryBody == [set |-> s3, ip |-> a2]

MixedBatches ==
  {<<s1>>, <<s2>>, <<Bad>>, <<s1, Bad, s2>>, <<Bad, s1>>, <<s2, s1>>,
   <<s2, Bad>>}
=============================================================================
