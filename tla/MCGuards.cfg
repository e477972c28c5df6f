\* Root and a user on OpenSSH 8.2 or later; accounts change between any two steps.
\* A firewall with a port of sshd, one of a service and one that looks like a client.
CONSTANTS
  root = root
  u1 = u1
  Root = root
  Users = {u1}
  Dropin = TRUE
  ssh = ssh
  web = web
  call = call
  Ports = {ssh, web, call}
  SshPorts = {ssh}
  Allowed = {}
  ClientLike = {call}
SPECIFICATION MCSpec
PROPERTY NobodyLockedOut
PROPERTY SessionKeepsAccess
PROPERTY EarlierRunsAreKept
PROPERTY AWayToRootStays
PROPERTY UfwNeverCuts
PROPERTY KeptAcrossBoots
