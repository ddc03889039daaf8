\* EmailSender: two goroutines sending on one sender, either SMTPDirectTLS
CONSTANTS
    Host = "mail.example.org"
    Port = 465
    Callers = {c1, c2}
    MaxSends = 3
SPECIFICATION Spec
INVARIANT
    DeliveredUnlessFault
