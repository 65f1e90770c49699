------------------------- MODULE CollaborationIdentity -------------------------
(***************************************************************************)
(* The identity of a collaborator: a protected root file that lists the    *)
(* certificates of the principal's devices, a protected file per device    *)
(* with its keys and certificate, and the public identities exported from  *)
(* the root, which others verify and devices are opened against.  The root *)
(* file is changed under its lock; a certification writes the device file  *)
(* and then the root file, and may stop between the two.                   *)
(***************************************************************************)
EXTENDS Naturals, FiniteSets

CONSTANTS DeviceIds, Paths, None,
          Expiries,     \* the times certificates may expire at; Never does not
          Never,
          MaxDevices,   \* MAX_COLLABORATIVE_DEVICES_PER_PRINCIPAL
          MaxGeneration, \* bound: generations of the root
          MaxNow        \* bound: time

VARIABLES root,     \* [gen, devices]: devices[i] is a certificate or None
          file,     \* file[p]: the certificate in device file p, or None
          lock,     \* the certification that holds the root's lock, or None
          exports,  \* the public identities exported so far
          now

vars == <<root, file, lock, exports, now>>

\* principalRootMetadataSchema: one certificate, of keys of its own, per device.
Metadata(gen, devices) == [gen |-> gen, devices |-> devices]

Init == /\ root = Metadata(1, [i \in DeviceIds |-> None])
        /\ file = [p \in Paths |-> None]
        /\ lock = None /\ exports = {} /\ now = 0

\* Keys are drawn at random; the file that keeps them stands for them.
Certificate(i, p, expires) ==
  [id |-> i, keys |-> p, gen |-> 1, state |-> "active", expires |-> expires]

Certificates == [id : DeviceIds, keys : Paths, gen : Nat, state : {"active", "revoked"},
                 expires : Expiries \cup {Never}]

\* What the proofs assume: None is no certificate and no lock, times are numbers.
ConstantsFit ==
  /\ Expiries \subseteq Nat
  /\ None \notin Certificates /\ None \notin [path : Paths, cert : Certificates]

\* assertUsableInterval: an instant of expiry is expired.
Usable(c) == c.state = "active" /\ (c.expires # Never => now < c.expires)

\* A file is sealed under its passphrase; opened, it is what was written.
Seal(p, cert) == file' = [file EXCEPT ![p] = cert]
Opened(p)     == file[p]

Listed == {i \in DeviceIds : root.devices[i] # None}

-----------------------------------------------------------------------------
(* Public identities.                                                      *)

\* createPublicIdentityIfPossible: the devices active at this time, if any.
Exported(r) == LET active == {c \in {r.devices[i] : i \in DeviceIds} \ {None} : Usable(c)}
               IN IF active = {} THEN {} ELSE {[gen |-> r.gen, devices |-> active]}

\* verifyPublicIdentityExport against a floor of the generation: a device that
\* expired since the export spoils all of it.
Verified(e, floor) == e.gen >= floor /\ \A c \in e.devices : Usable(c)

\* openDeviceIdentityFile: the file holds the very certificate of the identity.
Opens(p, e, floor) == Opened(p) # None /\ Verified(e, floor) /\ Opened(p) \in e.devices

-----------------------------------------------------------------------------
\* recoverPublishedDeviceCertificate: the file is what an interrupted
\* certification of this device would have left.
Recovers(p, i, expires) ==
  Opened(p).id = i /\ Opened(p).expires = expires /\ Usable(Opened(p))

Hold(p) == lock' = [path |-> p, cert |-> file'[p]]

\* createCertifiedDeviceIdentityFile up to the device file.
Certify(i, p, expires) ==
  /\ lock = None
  /\ IF Opened(p) # None
     THEN Recovers(p, i, expires) /\ UNCHANGED file
     ELSE /\ i \notin Listed /\ Cardinality(Listed) < MaxDevices
          /\ Seal(p, Certificate(i, p, expires))
  /\ Hold(p)
  /\ UNCHANGED <<root, exports, now>>

With(cert) == Metadata(root.gen + 1, [root.devices EXCEPT ![cert.id] = cert])

\* Mutant: a recovered certificate replaces the one that is listed.
RecordReplacing(cert) ==
  IF root.devices[cert.id] = cert THEN UNCHANGED root ELSE root' = With(cert)

\* The root lists the certificate, or another one is refused.
Record(cert) ==
  IF root.devices[cert.id] # None
  THEN root.devices[cert.id] = cert /\ UNCHANGED root
  ELSE Cardinality(Listed) < MaxDevices /\ root' = With(cert)

\* The rest of the certification, which answers with an export.
Finish == /\ lock # None /\ root.gen < MaxGeneration
          /\ Record(lock.cert)
          /\ exports' = exports \cup Exported(root')
          /\ lock' = None
          /\ UNCHANGED <<file, now>>

\* It is refused, fails or is killed; the lock of a dead process is reclaimed.
Stop == lock # None /\ lock' = None /\ UNCHANGED <<root, file, exports, now>>

\* revokeDeviceCredential: the root keeps the terminal certificate.
Revoke(i) ==
  /\ lock = None /\ root.gen < MaxGeneration
  /\ i \in Listed /\ root.devices[i].state = "active"
  /\ root' = With([root.devices[i] EXCEPT !.gen = @ + 1, !.state = "revoked"])
  /\ exports' = exports \cup Exported(root')
  /\ UNCHANGED <<file, lock, now>>

\* exportPrincipalPublicIdentityFile.
Export == /\ Exported(root) # {}
          /\ exports' = exports \cup Exported(root)
          /\ UNCHANGED <<root, file, lock, now>>

Tick == now < MaxNow /\ now' = now + 1 /\ UNCHANGED <<root, file, lock, exports>>

Next == \/ \E i \in DeviceIds, p \in Paths, expires \in Expiries \cup {Never} :
             Certify(i, p, expires)
        \/ Finish \/ Stop \/ Export \/ Tick
        \/ \E i \in DeviceIds : Revoke(i)

Spec == Init /\ [][Next]_vars

-----------------------------------------------------------------------------
\* A device has one pair of keys, whatever was interrupted and repeated under
\* other paths; a generation has one list of devices, of which an export may
\* only leave out what has expired; and no identity of the revocation's
\* generation or later opens the device that was revoked.
OneKeyPerDevice ==
  /\ \A e, f \in exports : \A p, q \in Paths :
       Opens(p, e, 1) /\ Opens(q, f, 1) /\ file[p].id = file[q].id => p = q
  /\ \A e, f \in exports : e.gen = f.gen =>
       e.devices \subseteq f.devices \/ f.devices \subseteq e.devices
  /\ \A i \in Listed, e \in exports, p \in Paths :
       root.devices[i].state = "revoked" /\ e.gen = root.gen =>
         ~ (Opens(p, e, 1) /\ file[p].id = i)
=============================================================================
