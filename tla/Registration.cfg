\* Three registrations beside the seed script; two spellings of one address.
SPECIFICATION Spec
CONSTANTS
  admin = admin
  dev = dev
  long = long
  mail1 = mail1
  Mail1 = Mail1
  mail2 = mail2
  h1 = h1
  h2 = h2
  Reqs = {r1, r2, r3}
  Seeder = seeder
  Names = {admin, dev, long}
  Mails = {mail1, Mail1, mail2}
  TooLong = {long}
  MailHash <- MCHash
  SeedRows <- MCSeed
  None = None
INVARIANTS TypeOK UniqueAccounts SeedAllOrNothing
PROPERTIES ConflictOnlyIfOvertaken EveryoneAnswered
\* Everything has been asked and answered.
CHECK_DEADLOCK FALSE
