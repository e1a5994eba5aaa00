------------------------------ MODULE MCHTTPService ------------------------------
EXTENDS HTTPService

(* Two manifests in two clusters: specs that leave everything to the        *)
(* defaults, that write what the defaults say, or something else.           *)
resources == [cpus |-> 100, memory |-> 100000, ports |-> 1000]
check == [zeroStartup EXCEPT !.protocol = "HTTPS"]
plain == [zeroSpec EXCEPT !.version = 1, !.instances = 1, !.resources = resources]
same == [plain EXCEPT !.env = "E" :> 1, !.startup = [check EXCEPT !.seconds = 5]]
other == [plain EXCEPT !.env = ("E" :> 2) @@ ("F" :> 1), !.startup = [check EXCEPT !.seconds = 7]]
manifest(a, b) == [owners |-> <<1, 2>>, kind |-> Service, specs |-> [c1 |-> a, c2 |-> b]]

MCManifests == [m1 |-> manifest(plain, same),
                m2 |-> [owners |-> <<2>>, kind |-> "worker", specs |-> [c1 |-> other]]]
MCDefs == [c1 |-> [env |-> "E" :> 1, startup |-> [check EXCEPT !.seconds = 5, !.failures = {500}]],
           c2 |-> [env |-> "E" :> 1, startup |-> [check EXCEPT !.seconds = 5]]]
MCWritten == {manifest(same, other), manifest(plain, plain), manifest(plain, [other EXCEPT !.resources = Empty])}
MCDefaults == {[env |-> ("E" :> 2) @@ ("F" :> 1), startup |-> [check EXCEPT !.seconds = 7]],
               [env |-> Empty, startup |-> check]}

Struct(fields, omit) == [plain |-> fields, omit |-> omit, sub |-> {<<"s">>}]
x == <<"x">>
y == <<"y">>
z == <<"z">>
u == <<"s", "u">>
v == <<"s", "v">>

(* The server's struct, one from before the field y and the nested v, and  *)
(* one that has a field z of which the server does not know.               *)
MCSchema == [server |-> Struct({x, u}, {y, v}),
             old    |-> Struct({x, u}, {}),
             new    |-> Struct({x, z, u}, {y, v})]

MCDocuments ==
    {(x :> a) @@ (y :> b) @@ (<<"s">> :> "object") @@ (u :> "zero") @@ (v :> c) :
        a \in {"zero", "one"}, b \in {"zero", "two"}, c \in {"zero", "two"}}

(* Users are alike, and so are the manifests they change and the contents   *)
(* that have no flaw.                                                       *)
Symmetry == Permutations(Users) \cup Permutations(Names) \cup Permutations(Valid)
=============================================================================
