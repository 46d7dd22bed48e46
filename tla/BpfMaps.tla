------------------------------ MODULE BpfMaps -------------------------------
(***************************************************************************)
(* The three BPF hash maps that the packet programs and the API server     *)
(* share, and the operations on a BPF hash map.  A map is a function to    *)
(* its values, with None for an absent key.  The constants are named after *)
(* the Rust types and limits of dataplane/common.                          *)
(***************************************************************************)
EXTENDS Naturals, FiniteSets, TcpState

CONSTANTS
    Vips,           \* BackendKey: the (ip, port) of a Gateway
    TcpClients,     \* ClientKey (ip, port) of TCP clients
    UdpClients,     \* ClientKey (ip, 0) of UDP clients
    Backends,       \* Backend values that a target can become
    ZeroBackend,    \* Backend::default(), which pads a backends array
    None,           \* an absent map entry, lock owner or Option value
    ArrayCapacity,  \* BACKENDS_ARRAY_CAPACITY
    MapsCapacity,   \* max_entries of BACKENDS and of GATEWAY_INDEXES
    ConnsCapacity   \* max_entries of LB_CONNECTIONS

\* Capacities are positive, and a default Backend is not a configured one: no
\* target has address 0.0.0.0, port 0 and interface 0.  A client key has port 0
\* for UDP only.
ASSUME MapsAssumption ==
    /\ ArrayCapacity \in Nat \ {0}
    /\ MapsCapacity \in Nat \ {0}
    /\ ConnsCapacity \in Nat \ {0}
    /\ ZeroBackend \notin Backends
    /\ TcpClients \cap UdpClients = {}
    /\ None \notin TCPState \cup TcpClients

VARIABLES
    BACKENDS,         \* the backend list of each VIP
    GATEWAY_INDEXES,  \* the array position each VIP's next connection takes
    LB_CONNECTIONS    \* the mapping of each tracked client

mapVars == <<BACKENDS, GATEWAY_INDEXES, LB_CONNECTIONS>>

ClientKey == TcpClients \cup UdpClients

BackendList ==
    [backends     : [0 .. ArrayCapacity - 1 -> Backends \cup {ZeroBackend}],
     backends_len : 0 .. ArrayCapacity]

LoadBalancerMapping ==
    [backend     : Backends \cup {ZeroBackend},
     backend_key : Vips,
     tcp_state   : TCPState \cup {None}]

\* An absent entry is told apart from every value.
ASSUME NoneAssumption == None \notin BackendList /\ None \notin LoadBalancerMapping
ASSUME NoIndexAssumption == None \notin Nat

MapsTypeOK ==
    /\ BACKENDS \in [Vips -> BackendList \cup {None}]
    /\ GATEWAY_INDEXES \in [Vips -> Nat \cup {None}]
    /\ LB_CONNECTIONS \in [ClientKey -> LoadBalancerMapping \cup {None}]

\* The loader takes the maps as the kernel created them: empty.
MapsInit ==
    /\ BACKENDS = [k \in Vips |-> None]
    /\ GATEWAY_INDEXES = [k \in Vips |-> None]
    /\ LB_CONNECTIONS = [c \in ClientKey |-> None]

Keys(map) == {x \in DOMAIN map : map[x] # None}

\* bpf_map_update_elem with flags 0 (BPF_ANY) replaces the entry of a present
\* key, and adds an absent one unless the map has max_entries of them.
CanInsert(map, x, capacity) ==
    map[x] # None \/ Cardinality(Keys(map)) < capacity

Insert(map, x, v) == [map EXCEPT ![x] = v]

\* bpf_map_delete_elem; it fails with ENOENT when the key is absent.
Remove(map, x) == [map EXCEPT ![x] = None]

\* What a pointer got from looking up x reads, v having been its value then.
\* Replacing or removing the entry frees its element, and the kernel hands a
\* freed element to a later insert of any key.
Deref(map, x, v) ==
    {v} \cup {map[y] : y \in {z \in Keys(map) : map[x] # v}}

\* The clients whose tracked connection belongs to VIP k.
Tracked(k) == {c \in Keys(LB_CONNECTIONS) : LB_CONNECTIONS[c].backend_key = k}
=============================================================================
