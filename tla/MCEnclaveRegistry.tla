------------------------- MODULE MCEnclaveRegistry -------------------------
(* Small instances of EnclaveRegistry for TLC. *)
EXTENDS EnclaveRegistry, TLC

CONSTANTS m1, m2, h1, h2, v1, v2, v3, c1, c2

\* v3 is a release whose bundle does not verify.
MCMeasurementOf == [t \in Tags |-> ((v1 :> c1) @@ (v2 :> c2) @@ (v3 :> NoMeasurement))[t]]

MCSettings == {"off", "on"}
MCPolled   == {"on"}
MCInitial  == [m \in Models |-> "off"]

Config(listed, sameRepo, hosts, s) ==
  [listed |-> listed, sameRepo |-> sameRepo,
   hosts |-> [m \in Models |-> hosts], settings |-> [m \in Models |-> s]]

\* Everything listed; the last host moved away and overload control off; one
\* model renamed repository; nothing listed.
MCConfigs ==
  { Config(Models, Models, Hosts, "on"),
    Config(Models, Models, {h1}, "off"),
    Config(Models, Models \ {m1}, Hosts, "on"),
    Config(Models \ {m1}, Models \ {m1}, {h1}, "on") }

AllListed == { Config(Models, Models, Hosts, "on") }
\* The last host moved away, or the model taken out and put back.
Edited ==
  { Config(Models, Models, Hosts, "on"),
    Config(Models, Models, {h1}, "off"),
    Config(Models \ {m1}, Models \ {m1}, {h1}, "on") }

=============================================================================
