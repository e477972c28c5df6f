\* Stated in helpers.rb, refuted: an OpenSSH without sshd_config.d.
CONSTANTS
  root = root
  u1 = u1
  u2 = u2
  Root = root
  Users = {u1}
  Dropin = FALSE
SPECIFICATION QuietSpec
PROPERTY EarlierRunsAreKept
