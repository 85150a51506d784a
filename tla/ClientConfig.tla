---------------------------- MODULE ClientConfig ----------------------------
(***************************************************************************)
(* The configuration of the OCI client (pkg/oci/client) as operators.  Of  *)
(* a string only matters whether it is empty and, for a compartment, where *)
(* it comes from.                                                          *)
(***************************************************************************)

AuthFields == {"region", "tenancy", "user", "key", "fingerprint"}

\* A configuration file: the fields of "auth" that are not empty, and the
\* compartments at the top level and, deprecated, under "auth".
Configs == [auth : SUBSET AuthFields, useInstancePrincipals : BOOLEAN,
            compartment : {"", "top"}, authCompartment : {"", "auth"}]

Complete(c) ==
    IF c.compartment = "" /\ c.authCompartment # ""
    THEN [c EXCEPT !.compartment = c.authCompartment] ELSE c

\* Mutant: with instance principals the fields are not looked at.
validateAuthConfigLax(c) ==
    IF c.useInstancePrincipals THEN {} ELSE AuthFields \ c.auth

\* The fields with an error: instance principals forbid all, otherwise all are
\* required.
validateAuthConfig(c) ==
    IF c.useInstancePrincipals THEN c.auth ELSE AuthFields \ c.auth

newConfigurationProvider(c) ==
    IF validateAuthConfig(c) # {} THEN "invalid"
    ELSE IF c.useInstancePrincipals THEN "principals" ELSE "raw"

\* Values of OCI_PROXY and TRUSTED_CA_CERT_PATH: not set, good, or not usable.
TransportEnvs == [proxy : {"", "url", "bad"}, ca : {"", "pem", "bad"}]

\* The transport that a client gets, if none of the values is unusable.
configureCustomTransport(env) == IF "bad" \in {env.proxy, env.ca} THEN {} ELSE {env}
=============================================================================
