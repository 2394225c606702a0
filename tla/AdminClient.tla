---------------------------- MODULE AdminClient ----------------------------
(***************************************************************************)
(* The client of Envoy's admin port (admin.go): the parser of /clusters    *)
(* and the conditions its callers poll for.  The text is a set of lines;   *)
(* what the parser decides on is kept: the cluster a line begins with,     *)
(* whether its subject has a dot (an address has, the name of a statistic  *)
(* has not), the key and the value.  An address is the number of its host; *)
(* the parser turns flags to upper case, all of them, so case is left out. *)
(*                                                                         *)
(* A definition named Op_Fault is a faulty form of Op; nothing uses it.    *)
(***************************************************************************)
EXTENDS Naturals, FiniteSets

clusterName == "test-cluster"

PENDING == "pending_dynamic_removal"

-----------------------------------------------------------------------------
(* What Envoy prints *)

Line(cluster, subject, dotted, key, value) ==
  [cluster |-> cluster, subject |-> subject, dotted |-> dotted, key |-> key, value |-> value]

\* The lines of a table of listed hosts, with the flags of each: statistics of
\* the clusters, the static cluster's own host, and lines for every host.
ClustersText(flags) ==
  {Line(c, 0, FALSE, "added_via_api", {}) : c \in {clusterName, "xds_cluster"}}
  \cup {Line("xds_cluster", 0, TRUE, "health_flags", {})}
  \cup {Line(clusterName, h, TRUE, "health_flags", flags[h]) : h \in DOMAIN flags}
  \cup {Line(clusterName, h, TRUE, "weight", {}) : h \in DOMAIN flags}

-----------------------------------------------------------------------------
(* parseClusterHosts *)

\* Fault: statistics are taken for hosts.
HostLines_NoDot(lines, cluster) == {l \in lines : l.cluster = cluster}

\* The lines of one cluster that are about a host.
HostLines(lines, cluster) == {l \in lines : l.cluster = cluster /\ l.dotted}

\* One entry for each address.  Envoy joins several flags with "/" and the
\* parser splits at "|", so HealthFlags is one element: the set of all flags
\* that were printed together, or "healthy" (the empty set).
parseClusterHosts(lines, cluster) ==
  LET about == HostLines(lines, cluster)
  IN {[Address     |-> a,
       HealthFlags |-> {l.value : l \in {k \in about : k.subject = a /\ k.key = "health_flags"}}]
        : a \in {l.subject : l \in about}}

\* What it returns with scanner.Err(): some of the hosts, and one whose lines
\* were cut before its flags or within them.
CutAt(hosts, cut) ==
  {whole \cup {[cut EXCEPT !.HealthFlags = flags]} :
     whole \in SUBSET (hosts \ {cut}), flags \in {{}, {{"cut"}}}}

PartialHosts(hosts) == (SUBSET hosts) \cup UNION {CutAt(hosts, cut) : cut \in hosts}

HasFlag(host, flag) == {flag} \in host.HealthFlags

IsHealthy(host) == \A f \in host.HealthFlags : f = {}

\* FindHost, as the set of what it finds.
FindHost(hosts, address) == {h \in hosts : h.Address = address}

-----------------------------------------------------------------------------
(* What the callers look for in a sample *)

\* n is an address, for "count" a number of hosts.
Shows(hosts, condition, n) ==
  LET found == FindHost(hosts, n)
  IN CASE condition = "healthy" -> found # {} /\ \A h \in found : IsHealthy(h)
       [] condition = "flag"    -> found # {} /\ \A h \in found : HasFlag(h, PENDING)
       [] condition = "present" -> found # {} /\ \A h \in found : ~HasFlag(h, PENDING)
       [] condition = "listed"  -> found # {}
       [] condition = "gone"    -> found = {}
       [] condition = "count"   -> Cardinality(hosts) = n

=============================================================================
