SPECIFICATION Spec
CONSTANTS
  led = led
  button = button
  odd = odd
  absent = absent
  bus = bus
  ch1 = ch1
  ch2 = ch2
  controller = controller
  Pins = {led, button, odd, absent}
  Direction <- MCDirection
  Inverted = {button, absent}
  Negative = {absent}
  Interfaces = {bus}
  Channels = {ch1, ch2}
  ControllerOf <- MCControllerOf
  Sets <- MCSets
  Settings <- MCSettings
  f1 = f1
  f2 = f2
  f3 = f3
  f4 = f4
  FDs = {f1, f2, f3, f4}
  NoFd = NoFd
  NsecPerSec = 1000000
  Word = 4194304
SYMMETRY MCDescriptors
INVARIANTS DescriptorsOwned OnlyRefusedLeak PulseFits
