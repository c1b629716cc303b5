------------------------------ MODULE Devices ------------------------------
(* The devices that scans observe: UpsertDeviceObservationWithOutcome and       *)
(* UpdateDevice of internal/store/sqlite/store_impl.go, called for every        *)
(* observation by processObservations of app/app.go.  A LAN scan, a Docker scan *)
(* and a discovery started by hand may process their observations side by side. *)
EXTENDS Integers, FiniteSets

CONSTANTS
    Macs, Hosts, Addresses,  \* what a probe reads of a machine
    Endpoints,               \* the Docker endpoints
    Scanners,                \* runs of discovery that overlap
    Unknown

VARIABLES
    devices,    \* by identity_key: primary_mac, hidden, and the rows of
                \* device_addresses with the MAC of each
    scans,      \* per scanner: the device it has stored and not announced yet
    announced,  \* history: how often a device was published as created
    hiddenByUser  \* history: the devices the user's last update hides

deviceVars == <<devices, scans, announced, hiddenByUser>>

Idle == [stored |-> Unknown, created |-> FALSE]

DevicesInit ==
    /\ devices = <<>>
    /\ scans = [s \in Scanners |-> Idle]
    /\ announced = <<>>
    /\ hiddenByUser = {}

LanObservation == [mac : Macs \cup {Unknown}, host : Hosts \cup {Unknown}, address : Addresses]
(* An endpoint on a socket has no address. *)
DockerObservation == [endpoint : Endpoints, address : Addresses \cup {Unknown}]

(* Faulty: the host name goes before the MAC. *)
IdentityKeyOfHost(o) ==
    IF "endpoint" \in DOMAIN o THEN <<"docker-host", o.endpoint>>
    ELSE IF o.host # Unknown THEN <<"fp", o.host>>
    ELSE IF o.mac # Unknown THEN <<"mac", o.mac>> ELSE <<"fp", o.address>>

(* identityKey of the LAN provider; Docker has the id of its endpoint. *)
IdentityKey(o) ==
    IF "endpoint" \in DOMAIN o THEN <<"docker-host", o.endpoint>>
    ELSE IF o.mac # Unknown THEN <<"mac", o.mac>>
    ELSE IF o.host # Unknown THEN <<"fp", o.host>> ELSE <<"fp", o.address>>

MacOf(o) == IF "endpoint" \in DOMAIN o THEN Unknown ELSE o.mac

(* The rows an observation may be about; the query takes any one. *)
Matches(o) ==
    {k \in DOMAIN devices :
        k = IdentityKey(o) \/ (MacOf(o) # Unknown /\ devices[k].mac = MacOf(o))}

(* What an observation does not know leaves the column as it is. *)
Known(new, old) == IF new = Unknown THEN old ELSE new

(* upsertDeviceAddressTx *)
Seen(rows, o) ==
    IF o.address = Unknown THEN rows
    ELSE [a \in DOMAIN rows \cup {o.address} |->
             IF a # o.address THEN rows[a]
             ELSE IF a \in DOMAIN rows THEN Known(MacOf(o), rows[a]) ELSE MacOf(o)]

(* The transaction: find or create the device, then its address. *)
StoreObservation(s, o) ==
    /\ scans[s] = Idle
    /\ LET found == Matches(o)
           new == IdentityKey(o)
           keep(k) == scans' = [scans EXCEPT ![s] = [stored |-> k, created |-> found = {}]]
       IN  IF found = {}
              THEN /\ devices' = [k \in DOMAIN devices \cup {new} |->
                                     IF k # new THEN devices[k]
                                     ELSE [mac |-> MacOf(o), hidden |-> FALSE, addresses |-> Seen(<<>>, o)]]
                   /\ keep(new)
              ELSE \E k \in found :
                      /\ devices' = [devices EXCEPT ![k] =
                             [devices[k] EXCEPT !.mac = Known(MacOf(o), @), !.addresses = Seen(@, o)]]
                      /\ keep(k)
    /\ UNCHANGED <<announced, hiddenByUser>>

Announcements(k) == IF k \in DOMAIN announced THEN announced[k] ELSE 0

(* The device is read back after the commit and published; a read that fails    *)
(* ends the run, and what was created is never published.                       *)
AnnounceDevice(s) ==
    /\ scans[s] # Idle
    /\ scans' = [scans EXCEPT ![s] = Idle]
    /\ LET k == scans[s].stored
       IN  announced' =
               IF scans[s].created
                  THEN [d \in DOMAIN announced \cup {k} |-> IF d = k THEN Announcements(k) + 1 ELSE announced[d]]
                  ELSE announced
    /\ UNCHANGED <<devices, hiddenByUser>>

ReadBackFails(s) ==
    /\ scans[s] # Idle
    /\ scans' = [scans EXCEPT ![s] = Idle]
    /\ UNCHANGED <<devices, announced, hiddenByUser>>

UpdateDevice(k, hidden) ==
    /\ devices' = [devices EXCEPT ![k].hidden = hidden]
    /\ hiddenByUser' = IF hidden THEN hiddenByUser \cup {k} ELSE hiddenByUser \ {k}
    /\ UNCHANGED <<scans, announced>>

DevicesNext ==
    \/ \E s \in Scanners :
          \/ \E o \in LanObservation \cup DockerObservation : StoreObservation(s, o)
          \/ AnnounceDevice(s)
          \/ ReadBackFails(s)
    \/ \E k \in DOMAIN devices, hidden \in BOOLEAN : UpdateDevice(k, hidden)

DevicesSpec == DevicesInit /\ [][DevicesNext]_deviceVars

-----------------------------------------------------------------------------
DevicesTypeOK ==
    /\ \A k \in DOMAIN devices :
          /\ devices[k].mac \in Macs \cup {Unknown}
          /\ devices[k].hidden \in BOOLEAN
          /\ DOMAIN devices[k].addresses \subseteq Addresses
    /\ \A s \in Scanners : scans[s] # Idle => scans[s].stored \in DOMAIN devices

(* A MAC stands for one device, and a device for one machine: no address of it  *)
(* was seen with another machine's MAC.                                         *)
OneMachinePerDevice ==
    /\ \A k, l \in DOMAIN devices :
          devices[k].mac = devices[l].mac /\ devices[k].mac # Unknown => k = l
    /\ \A k \in DOMAIN devices : \A a \in DOMAIN devices[k].addresses :
          devices[k].addresses[a] \in {Unknown, devices[k].mac}

(* Machines that exchange host names and addresses, and MACs that come and go   *)
(* with the ARP cache, never make one device of two machines or give a machine  *)
(* two devices with its MAC; overlapping runs never announce a device twice;    *)
(* and no observation shows a device the user has hidden.                       *)
DevicesIdentified ==
    /\ OneMachinePerDevice
    /\ \A k \in DOMAIN announced : k \in DOMAIN devices /\ announced[k] = 1
    /\ {k \in DOMAIN devices : devices[k].hidden} = hiddenByUser
=============================================================================
