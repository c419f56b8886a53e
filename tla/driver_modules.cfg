CONSTANT
  Drivers = {"key_input", "ts", "usbmouse", "ramblock", "i2c", "i2c_poll", "at24", "at24_class", "at24c02", "led", "key", "key_irq", "key_jitter", "lcd", "vnet"}
SPECIFICATION Spec
INVARIANTS TouchesOnlyHeld NothingLeft ReleasesHeld WithinBounds
